---- MODULE Spec2Model ----
(***************************************************************************)
(* Session lifecycle manager of the Minibot host (src/pair.js): the        *)
(* registry of live sockets, the persisted Session records, the pairing    *)
(* orchestration EmpirePair, the connection-open subscriber, the           *)
(* auto-restart subscriber, the deleteme command and the process exit      *)
(* hook.  Every await of the source is a step boundary; what runs between  *)
(* two awaits is one atomic action (single-threaded event loop).           *)
(***************************************************************************)
EXTENDS Integers, Sequences, FiniteSets, TLC

VARIABLES activeSockets, socketCreationTime, store, sessionDir, numbersFile,
          calls, proc,
          otpStore, now, routes, exchange, history,
          replay, inbound, console

\* the state of the configuration routes: the pending OTP requests, the
\* clock (Date.now()), the route handlers suspended at an await, the
\* request and response of the latest route step, and a history variable:
\* per number, the code and payload of the update-config request accepted
\* last, the code verified since, and whether a configuration was ever saved
configVars == <<otpStore, now, routes, exchange, history>>

\* the startup replay of the persisted records (autoReconnectFromMongoDB)
\* and the inbound event handled last by the subscribers of a socket;
\* console holds what the open subscribers logged about their group join
\* and newsletter follows, where a specification follows the log
eventVars == <<replay, inbound, console>>

vars == <<activeSockets, socketCreationTime, store, sessionDir, numbersFile,
          calls, proc, otpStore, now, routes, exchange, history,
          replay, inbound, console>>

(***************************************************************************)
(* Bounds of the exploration                                               *)
(***************************************************************************)
\* GET / requests and internal EmpirePair calls of one process lifetime
MaxCalls == 2
\* key rotations of one socket
MaxRotations == 2
\* requests received by the configuration routes
MaxRequests == 3
\* route handlers suspended at an await at the same time
MaxRoutes == 2
\* steps of the clock, one OTP_EXPIRY each
MaxTicks == 2
\* successive drops (closes other than 401) of one session, each followed by
\* the EmpirePair call of its close subscriber
MaxDrops == 3

(***************************************************************************)
(* Program constants                                                       *)
(***************************************************************************)
MAX_RETRIES == 3
\* OTP_EXPIRY, in ms
OTP_EXPIRY == 300000
\* statusCode === 401: the logged-out close tested by setupAutoRestart
LoggedOut == 401

\* the status codes a close can carry: logged out, or any other reason (here
\* the library's connectionClosed, which a ws.close() also reports)
CloseStatuses == {401, 428}

ConnectionClosed == CHOOSE statusCode \in CloseStatuses : statusCode # LoggedOut

(***************************************************************************)
(* Phone numbers.  A query parameter is a string, here a sequence of       *)
(* characters; the empty sequence is the missing / empty parameter.        *)
(***************************************************************************)
Digits == {"0", "1", "2", "3", "4", "5", "6", "7", "8", "9"}

IsDigit(ch) == ch \in Digits

\* number.replace(/[^0-9]/g, '')
Sanitize(number) == SelectSeq(number, IsDigit)

RawNumbers == { <<>>, <<"1">>, <<"+", "1">>, <<"2">> }

Numbers == { Sanitize(r) : r \in RawNumbers } \ { <<>> }

(***************************************************************************)
(* Credential blobs and Session records                                    *)
(***************************************************************************)
\* a credential blob: rev counts the key rotations the blob has been through
Null == [present |-> FALSE, registered |-> FALSE, rev |-> 0]

\* initAuthCreds() of the protocol library: a blob that is not registered
FreshCreds == [present |-> TRUE, registered |-> FALSE, rev |-> 0]

RegisteredCreds == [present |-> TRUE, registered |-> TRUE, rev |-> 0]

\* a configuration document is a set of <<key, value>> pairs; NoConfig is
\* the field of a record that does not exist
NoConfig == [defined |-> FALSE, doc |-> {}]

ConfigDoc(d) == [defined |-> TRUE, doc |-> d]

\* config: { type: Mixed, default: {} }
SchemaDefaultConfig == ConfigDoc({})

\* the process-wide config of config.js, here its PREFIX entry and the
\* three toggles of the event subscribers (their values when the environment
\* sets none)
DefaultConfig ==
    ConfigDoc({ <<"PREFIX", ".">>,
                <<"AUTO_VIEW_STATUS", "false">>,
                <<"AUTO_LIKE_STATUS", "false">>,
                <<"AUTO_RECORDING", "false">> })

NoRecord == [exists |-> FALSE, creds |-> Null, config |-> NoConfig]

\* a record inserted with credentials: the schema default fills config
SessionRecord(c) == [exists |-> TRUE, creds |-> c, config |-> SchemaDefaultConfig]

\* a restore that hands out the stored credentials although the call failed
restoreSessionDespiteFailure(number, dbOk) ==
    store[Sanitize(number)].creds

\* Session.findOne in restoreSession: null when absent or when the store fails
restoreSession(number, dbOk) ==
    LET sanitizedNumber == Sanitize(number) IN
    IF dbOk /\ store[sanitizedNumber].exists
    THEN store[sanitizedNumber].creds
    ELSE Null

\* Session.deleteOne in deleteSessionFromStorage: errors are logged only
deleteSessionFromStorage(number, dbOk) ==
    IF dbOk THEN [store EXCEPT ![Sanitize(number)] = NoRecord] ELSE store

\* useMultiFileAuthState(sessionPath): creds.json if present, else fresh creds
useMultiFileAuthState(sanitizedNumber) ==
    IF sessionDir[sanitizedNumber].present
    THEN sessionDir[sanitizedNumber]
    ELSE FreshCreds

(***************************************************************************)
(* HTTP responses.  A res is the response object handed to EmpirePair:     *)
(* the one of a GET / request, or the mockRes of the internal callers.     *)
(***************************************************************************)
NewRes(number) ==
    [http |-> TRUE, number |-> number, headersSent |-> FALSE, status |-> 0,
     body |-> "none", sends |-> 0]

\* { headersSent: false, send: () => {}, status: () => mockRes }
MockRes ==
    [http |-> FALSE, number |-> <<>>, headersSent |-> FALSE, status |-> 0,
     body |-> "none", sends |-> 0]

\* res.status(s).send(b): the framework's send on a real response, the
\* empty function on the mockRes
ResSend(res, s, b) ==
    IF res.http
    THEN [res EXCEPT !.headersSent = TRUE, !.status = s, !.body = b,
                     !.sends = @ + 1]
    ELSE res

\* if (!res.headersSent) res.send({ code })
SendCode(res, code) ==
    IF ~res.headersSent
    THEN ResSend(res, 200, IF code THEN "code" ELSE "no_code")
    ELSE res

\* if (res && !res.headersSent) res.status(503).send({error})
SendUnavailable(res) ==
    IF ~res.headersSent THEN ResSend(res, 503, "error") ELSE res

(***************************************************************************)
(* One record per GET / request and per internal EmpirePair call: the      *)
(* position of the call, its response, and the socket it creates with the  *)
(* positions of that socket's subscribers.  origin is the call whose       *)
(* auto-restart subscriber made the call, 0 for a GET / request; hadRecord *)
(* tells whether a Session record existed when the call restored; creds is *)
(* state.creds of the socket and credsH its running creds.update handlers. *)
(***************************************************************************)
EmpirePairEntry(number, res, o) ==
    [num |-> Sanitize(number), res |-> res, origin |-> o, pc |-> "restore",
     hadRecord |-> FALSE, registered |-> FALSE,
     retries |-> 0, attempts |-> 0, code |-> FALSE,
     conn |-> "none", status |-> 0, subscribed |-> FALSE,
     openH |-> "idle", closeH |-> "idle", cmdH |-> "idle",
     creds |-> Null, credsH |-> <<>>]

\* a GET / request answered by the route itself: return res.status(s).send(b)
Answered(number, s, b) ==
    [EmpirePairEntry(number, ResSend(NewRes(number), s, b), 0)
         EXCEPT !.pc = "replied"]

CallIds == 1..Len(calls)

\* close handlers that wait for their cooldown and will call EmpirePair
Cooling == { i \in CallIds : calls[i].closeH = "cooldown" }

\* an EmpirePair invocation can still be recorded
Room == Len(calls) + Cardinality(Cooling) < MaxCalls

\* the same for a session that drops again and again: its first call and one
\* call per drop
MaxDropCalls == 1 + MaxDrops

\* the process has not exited.  exec(`pm2 restart ...`) returns at once: the
\* routes and the subscribers go on until the process is stopped
Running == proc \in {"running", "restarting"}

(***************************************************************************)
(* The configuration routes: pending OTP requests and HTTP exchanges       *)
(***************************************************************************)
\* otpStore.get(n) of a number with no pending request
NoOtp == [present |-> FALSE, otp |-> "", expiry |-> 0, newConfig |-> NoConfig]

\* { otp, expiry, newConfig }
OtpRequest(otp, expiry, newConfig) ==
    [present |-> TRUE, otp |-> otp, expiry |-> expiry, newConfig |-> newConfig]

\* the request of the latest route step (seq counts the requests received)
\* with the response the step sent, status 0 when the step suspended the
\* handler without responding
Exchange(seq, route, number, otp, configString, s, b) ==
    [seq |-> seq, route |-> route, number |-> number, otp |-> otp,
     config |-> configString, status |-> s, body |-> b]

NoExchange == Exchange(0, "none", <<>>, "", <<>>, 0, "none")

\* nothing accepted, verified or saved for a number
NoHistory == [accepted |-> NoOtp, verified |-> "", saved |-> FALSE]

(***************************************************************************)
(* autoReconnectFromMongoDB(), called when the module is loaded, and the   *)
(* loops of router.get('/connect-all') and router.get('/reconnect'): kind  *)
(* is the function that runs the loop, pc the await it is suspended at,    *)
(* found the numbers of the records Session.find returned (of the entries  *)
(* of numbers.json for /connect-all), todo the entries the loop has not    *)
(* reached yet, call the EmpirePair invocation the loop awaits, results    *)
(* the array of a route and status the status code the route answered with.*)
(***************************************************************************)
Loop(kind, pc, found, todo, call, results, status) ==
    [kind |-> kind, pc |-> pc, found |-> found, todo |-> todo, call |-> call,
     results |-> results, status |-> status]

Replay(pc, found, todo, call) == Loop("startup", pc, found, todo, call, <<>>, 0)

\* suspended at await Session.find({})
ReplayStart == Replay("find", {}, <<>>, 0)

\* Session.find rejected: the catch logged the error and the function ended
ReplayAborted == Replay("aborted", {}, <<>>, 0)

(***************************************************************************)
(* The inbound event a socket's subscribers handled last: a status         *)
(* broadcast (ops: what the status subscriber did) or a chat message       *)
(* (the locals of the command subscriber and the replies it has sent).     *)
(***************************************************************************)
Inbound(kind, num, body, sender, cmd, command, args, owner, handler, ops) ==
    [kind |-> kind, num |-> num, body |-> body, sender |-> sender,
     isCmd |-> cmd, command |-> command, args |-> args, isOwner |-> owner,
     handler |-> handler, ops |-> ops, replies |-> <<>>, escaped |-> FALSE]

NoInbound ==
    Inbound("none", <<>>, <<>>, <<>>, FALSE, <<>>, <<>>, FALSE, "none", {})

(***************************************************************************)
(* Initial state: empty registry; the durable store holds what earlier     *)
(* process lifetimes left in it.  The startup replay is over: its          *)
(* Session.find was rejected.  ReplayInit is the state before that.        *)
(***************************************************************************)
InitRecords == { NoRecord, SessionRecord(FreshCreds), SessionRecord(RegisteredCreds) }

Init ==
    /\ activeSockets = [n \in Numbers |-> 0]
    /\ socketCreationTime = [n \in Numbers |-> 0]
    /\ store \in [Numbers -> InitRecords]
    /\ sessionDir = [n \in Numbers |-> Null]
    /\ numbersFile = {}
    /\ calls = <<>>
    /\ proc = "running"
    /\ otpStore = [n \in Numbers |-> NoOtp]
    /\ now = 0
    /\ routes = <<>>
    /\ exchange = NoExchange
    /\ history = [n \in Numbers |-> NoHistory]
    /\ replay = ReplayAborted
    /\ inbound = NoInbound
    /\ console = <<>>

(***************************************************************************)
(* router.get('/')                                                         *)
(***************************************************************************)
\* the registry test without the normalisation of the number
IsConnectedUnsanitized(number) ==
    number \in Numbers /\ activeSockets[number] # 0

\* activeSockets.has(number.replace(/[^0-9]/g, ''))
IsConnected(number) == activeSockets[Sanitize(number)] # 0

GetRoot(number) ==
    /\ Running
    /\ Room
    /\ calls' = Append(calls,
           IF number = <<>>
           THEN Answered(number, 400, "error")
           ELSE IF IsConnected(number)
           THEN Answered(number, 200, "already_connected")
           ELSE EmpirePairEntry(number, NewRes(number), 0))
    /\ UNCHANGED <<activeSockets, socketCreationTime, store, sessionDir,
                   numbersFile, proc>>
    /\ UNCHANGED <<configVars, eventVars>>

(***************************************************************************)
(* EmpirePair                                                              *)
(***************************************************************************)
\* await restoreSession(...); write creds.json when credentials came back
RestoreCreds(i) ==
    /\ Running
    /\ i \in CallIds
    /\ calls[i].pc = "restore"
    /\ \E dbOk \in BOOLEAN :
         LET restoredCreds == restoreSession(calls[i].num, dbOk) IN
         sessionDir' = IF restoredCreds.present
                       THEN [sessionDir EXCEPT ![calls[i].num] = restoredCreds]
                       ELSE sessionDir
    /\ calls' = [calls EXCEPT ![i] =
           [@ EXCEPT !.pc = "auth", !.hadRecord = store[calls[i].num].exists]]
    /\ UNCHANGED <<activeSockets, socketCreationTime, store, numbersFile, proc>>
    /\ UNCHANGED <<configVars, eventVars>>

\* a catch that clears the registry entry along with the timestamp
PairingErrorClearsRegistry(i) ==
    /\ socketCreationTime' = [socketCreationTime EXCEPT ![calls[i].num] = 0]
    /\ activeSockets' = [activeSockets EXCEPT ![calls[i].num] = 0]
    /\ calls' = [calls EXCEPT ![i] =
           [@ EXCEPT !.pc = "failed", !.res = SendUnavailable(calls[i].res)]]

\* catch (error) of EmpirePair
PairingError(i) ==
    /\ socketCreationTime' = [socketCreationTime EXCEPT ![calls[i].num] = 0]
    /\ activeSockets' = activeSockets
    /\ calls' = [calls EXCEPT ![i] =
           [@ EXCEPT !.pc = "failed", !.res = SendUnavailable(calls[i].res)]]

\* socket.ev.on('creds.update') and socket.ev.on('connection.update') at the
\* end of the try block: the record of a finished invocation
Subscribed(p) == [p EXCEPT !.subscribed = TRUE, !.pc = "done", !.retries = 0]

\* a promise that rejects with nobody awaiting it in a try block: the runtime
\* reports it and, by its unhandled-rejections mode, goes on or raises it as
\* an uncaught exception, which process.on('uncaughtException') answers with
\* exec(`pm2 restart ...`)
UnhandledRejection == {proc, "restarting"}

\* the replay loop awaits call i inside its try block
AwaitedByReplay(i) == replay.pc = "await" /\ replay.call = i

\* useMultiFileAuthState rejects (line 3447, before the try block): EmpirePair
\* rejects to its caller.  The replay loop catches it later; the route's
\* framework answers the request itself or leaves the rejection unhandled,
\* as it is for the close subscriber.
PairingRejected(i) ==
    /\ UNCHANGED <<activeSockets, socketCreationTime>>
    /\ IF AwaitedByReplay(i)
       THEN /\ calls' = [calls EXCEPT ![i].pc = "rejected"]
            /\ proc' = proc
       ELSE \/ /\ calls[i].res.http
               /\ calls' = [calls EXCEPT ![i] =
                      [@ EXCEPT !.pc = "rejected",
                                !.res = ResSend(calls[i].res, 500, "error")]]
               /\ proc' = proc
            \/ /\ calls' = [calls EXCEPT ![i].pc = "rejected"]
               /\ proc' \in UnhandledRejection

\* await useMultiFileAuthState is over; makeWASocket; socketCreationTime.set;
\* the setup* subscribers; then the registered test
OpenSocket(i) ==
    /\ Running
    /\ i \in CallIds
    /\ calls[i].pc = "auth"
    /\ LET creds == useMultiFileAuthState(calls[i].num) IN
       \E outcome \in {"made", "threw", "rejected"} :
         IF outcome = "made"
         THEN /\ socketCreationTime' =
                     [socketCreationTime EXCEPT ![calls[i].num] = i]
              /\ calls' = [calls EXCEPT ![i] =
                     IF ~creds.registered
                     THEN [@ EXCEPT !.conn = "connecting", !.pc = "request",
                                    !.retries = MAX_RETRIES, !.creds = creds]
                     ELSE Subscribed([@ EXCEPT !.conn = "connecting",
                                               !.registered = TRUE,
                                               !.creds = creds])]
              /\ activeSockets' = activeSockets
              /\ proc' = proc
         ELSE IF outcome = "threw"
         THEN PairingError(i) /\ proc' = proc
         ELSE PairingRejected(i)
    /\ UNCHANGED <<store, sessionDir, numbersFile>>
    /\ UNCHANGED <<configVars, eventVars>>

\* a loop test that is off by one
LoopContinuesOnZero(retries) == retries >= 0

\* while (retries > 0)
LoopContinues(retries) == retries > 0

\* code = await socket.requestPairingCode(...); break; the guarded
\* res.send({ code }); the two subscriptions
PairingCodeIssued(i) ==
    /\ calls[i].conn # "closed"
    /\ calls' = [calls EXCEPT ![i] =
           Subscribed([@ EXCEPT !.attempts = @ + 1, !.code = TRUE,
                                !.res = SendCode(calls[i].res, TRUE)])]

\* a retry catch that answers the caller on every failed attempt
PairingCodeFailedResponds(i) ==
    /\ calls' = [calls EXCEPT ![i] =
           [@ EXCEPT !.attempts = @ + 1, !.retries = @ - 1, !.pc = "backoff",
                     !.res = ResSend(calls[i].res, 503, "error")]]

\* catch (error) { retries--; ...; await delay(2000 * ...) }
PairingCodeFailed(i) ==
    /\ calls' = [calls EXCEPT ![i] =
           [@ EXCEPT !.attempts = @ + 1, !.retries = @ - 1, !.pc = "backoff"]]

\* one iteration of the retry loop, after its delay(1500)
RequestPairingCode(i) ==
    /\ Running
    /\ i \in CallIds
    /\ calls[i].pc = "request"
    /\ PairingCodeIssued(i) \/ PairingCodeFailed(i)
    /\ UNCHANGED <<activeSockets, socketCreationTime, store, sessionDir,
                   numbersFile, proc>>
    /\ UNCHANGED <<configVars, eventVars>>

\* the backoff delay is over: next iteration, or leave the loop with code
\* undefined, send it, and subscribe
Backoff(i) ==
    /\ Running
    /\ i \in CallIds
    /\ calls[i].pc = "backoff"
    /\ IF LoopContinues(calls[i].retries)
       THEN calls' = [calls EXCEPT ![i].pc = "request"]
       ELSE calls' = [calls EXCEPT ![i] =
                Subscribed([@ EXCEPT !.res = SendCode(calls[i].res, calls[i].code)])]
    /\ UNCHANGED <<activeSockets, socketCreationTime, store, sessionDir,
                   numbersFile, proc>>
    /\ UNCHANGED <<configVars, eventVars>>

(***************************************************************************)
(* loadUserConfig / updateUserConfig                                       *)
(***************************************************************************)
\* session && session.config ? session.config : { ...config }, and the
\* default as well when Session.findOne rejects.  A hydrated document has
\* its config path filled by the schema default.
ConfigIn(sessions, number, dbOk) ==
    IF dbOk /\ sessions[number].exists /\ sessions[number].config.defined
    THEN sessions[number].config
    ELSE DefaultConfig

loadUserConfig(number, dbOk) == ConfigIn(store, number, dbOk)

\* Session.findOneAndUpdate({ number }, { config: newConfig, updatedAt },
\* { upsert: true }): an insert has no creds
updateUserConfig(number, newConfig) ==
    [store EXCEPT ![number] =
        [exists |-> TRUE, creds |-> @.creds, config |-> newConfig]]

\* try { await loadUserConfig(n) } catch { await updateUserConfig(n, config) }
\* of the open subscriber: loadUserConfig has its own catch and returns the
\* defaults, so it never rejects; its value is dropped
loadUserConfigRejects(number, dbOk) == FALSE

LoadOrSeed(number, dbOk) ==
    IF loadUserConfigRejects(number, dbOk)
    THEN updateUserConfig(number, DefaultConfig)
    ELSE store

(***************************************************************************)
(* joinGroup and the newsletter follows of the open subscriber             *)
(***************************************************************************)
\* newsletters of the fetched list
MaxNewsletters == 2

\* what socket.groupAcceptInvite does on each of its calls: TRUE answers
\* with a group id, FALSE rejects or answers without one
GroupAttempts == [1..MAX_RETRIES -> BOOLEAN]

\* while (retries > 0) { try { ...return success } catch { retries--;
\* if (retries === 0) return failed; await delay(...) } } return failed
RECURSIVE joinGroupLoop(_, _, _)
joinGroupLoop(retries, attempts, k) ==
    IF ~(retries > 0)
    THEN [status |-> "failed", tries |-> k - 1]
    ELSE IF attempts[k]
         THEN [status |-> "success", tries |-> k]
         ELSE IF retries - 1 = 0
              THEN [status |-> "failed", tries |-> k]
              ELSE joinGroupLoop(retries - 1, attempts, k + 1)

\* a joinGroup that lets the last failure escape
joinGroupRethrows(attempts) ==
    LET r == joinGroupLoop(MAX_RETRIES, attempts, 1)
    IN  IF r.status = "failed" THEN [r EXCEPT !.status = "threw"] ELSE r

\* let retries = config.MAX_RETRIES; the invite link of config.js matches
joinGroup(attempts) == joinGroupLoop(MAX_RETRIES, attempts, 1)

\* loadNewsletterJIDsFromRaw() is [] when the fetch fails; per newsletter
\* whether newsletterFollow and the reaction went through
FollowOutcomes ==
    UNION { [1..n -> BOOLEAN] : n \in 0..MaxNewsletters }

\* for (const jid of newsletterList) { try { follow; react } catch { warn } }
\* the value is the number of newsletters that were not followed
FollowAll(outcomes) == Cardinality({ j \in DOMAIN outcomes : ~outcomes[j] })

(***************************************************************************)
(* Connection events of the protocol library and their subscribers         *)
(***************************************************************************)
\* connection.update { connection: 'open' }: the subscriber of EmpirePair
\* starts with await delay(3000); without it the event is dropped.  The
\* protocol logs in only a socket made with registered credentials; a socket
\* that is pairing is closed by the server once the pairing is over.
ConnOpen(i) ==
    /\ Running
    /\ i \in CallIds
    /\ calls[i].conn = "connecting"
    /\ calls[i].registered
    /\ calls' = [calls EXCEPT ![i] =
           [@ EXCEPT !.conn = "open",
                     !.openH = IF calls[i].subscribed THEN "settle" ELSE "idle"]]
    /\ UNCHANGED <<activeSockets, socketCreationTime, store, sessionDir,
                   numbersFile, proc>>
    /\ UNCHANGED <<configVars, eventVars>>

\* the open subscriber up to activeSockets.set(sanitizedNumber, socket):
\* joinGroup, the follows and the configuration read, all inside the
\* subscriber's try, whose catch restarts the process; it then awaits the
\* welcome message.  groupResult is the value of joinGroup and missed the
\* number of newsletters that were not followed.
OpenSubscriber(i, groupResult, missed) ==
    /\ Running
    /\ i \in CallIds
    /\ calls[i].openH = "settle"
    /\ IF groupResult.status = "threw"
       THEN /\ calls' = [calls EXCEPT ![i].openH = "idle"]
            /\ proc' = "restarting"
            /\ UNCHANGED <<activeSockets, store>>
       ELSE /\ store' \in { LoadOrSeed(calls[i].num, dbOk) : dbOk \in BOOLEAN }
            /\ activeSockets' = [activeSockets EXCEPT ![calls[i].num] = i]
            /\ calls' = [calls EXCEPT ![i].openH = "welcome"]
            /\ proc' = proc
    /\ UNCHANGED <<socketCreationTime, sessionDir, numbersFile>>
    /\ UNCHANGED configVars

OpenRegister(i) ==
    /\ \E groupResult \in { joinGroup(attempts) : attempts \in GroupAttempts },
          missed \in { FollowAll(outcomes) : outcomes \in FollowOutcomes } :
         OpenSubscriber(i, groupResult, missed)
    /\ UNCHANGED eventVars

\* console.log / console.warn of joinGroup and of the follow loop
LogLine(i, groupResult, missed) ==
    [call |-> i, joined |-> groupResult.status = "success",
     tries |-> groupResult.tries,
     missed |-> IF groupResult.status = "threw" THEN 0 ELSE missed]

\* the same subscriber with its log lines kept
OpenLogged(i) ==
    /\ \E groupResult \in { joinGroup(attempts) : attempts \in GroupAttempts },
          missed \in { FollowAll(outcomes) : outcomes \in FollowOutcomes } :
         /\ OpenSubscriber(i, groupResult, missed)
         /\ console' = Append(console, LogLine(i, groupResult, missed))
    /\ UNCHANGED <<replay, inbound>>

\* the welcome message was sent: admin messages (failures logged) and the
\* numbers list; or it threw: catch (error) { exec(`pm2 restart ...`) }
OpenWelcome(i) ==
    /\ Running
    /\ i \in CallIds
    /\ calls[i].openH = "welcome"
    /\ calls' = [calls EXCEPT ![i].openH = "idle"]
    /\ \E sent \in BOOLEAN :
         IF sent
         THEN /\ numbersFile' = numbersFile \cup {calls[i].num}
              /\ proc' = proc
         ELSE /\ numbersFile' = numbersFile
              /\ proc' = "restarting"
    /\ UNCHANGED <<activeSockets, socketCreationTime, store, sessionDir>>
    /\ UNCHANGED <<configVars, eventVars>>

\* a subscriber that takes the reconnect branch whatever the status code
CloseBranchAlwaysReconnects(statusCode) == "cooldown"

\* const statusCode = ...; if (statusCode === 401) ... else ...: the first
\* await of the branch taken by the connection.update subscriber
CloseBranch(statusCode) ==
    IF statusCode = LoggedOut THEN "logout" ELSE "cooldown"

\* connection.update { connection: 'close' } with its status code.  A socket
\* closed through ws.close() reports connectionClosed.
Closes(i, statusCode) ==
    /\ Running
    /\ i \in CallIds
    /\ calls[i].conn \in {"connecting", "open", "closing"}
    /\ calls[i].conn = "closing" => statusCode = ConnectionClosed
    /\ calls' = [calls EXCEPT ![i] =
           [@ EXCEPT !.conn = "closed", !.status = statusCode,
                     !.closeH = CloseBranch(statusCode)]]
    /\ UNCHANGED <<activeSockets, socketCreationTime, store, sessionDir,
                   numbersFile, proc>>
    /\ UNCHANGED <<configVars, eventVars>>

\* the close of a socket, while the EmpirePair call its subscriber makes
\* after the cooldown can still be recorded
ConnClose(i, statusCode) ==
    /\ statusCode # LoggedOut => Room
    /\ Closes(i, statusCode)

\* the close of a socket of a session that drops again and again
Drop(i, statusCode) ==
    /\ statusCode # LoggedOut =>
           Len(calls) + Cardinality(Cooling) < MaxDropCalls
    /\ Closes(i, statusCode)

\* statusCode === 401: await deleteSessionFromStorage(number) is over, the
\* entries of both maps are deleted, and the notification is awaited
LogoutCleanup(i) ==
    /\ Running
    /\ i \in CallIds
    /\ calls[i].closeH = "logout"
    /\ \E dbOk \in BOOLEAN : store' = deleteSessionFromStorage(calls[i].num, dbOk)
    /\ sessionDir' = [sessionDir EXCEPT ![calls[i].num] = Null]
    /\ activeSockets' = [activeSockets EXCEPT ![calls[i].num] = 0]
    /\ socketCreationTime' = [socketCreationTime EXCEPT ![calls[i].num] = 0]
    /\ calls' = [calls EXCEPT ![i].closeH = "notify"]
    /\ UNCHANGED <<numbersFile, proc>>
    /\ UNCHANGED <<configVars, eventVars>>

\* try { await socket.sendMessage(...) } catch { console.error }: sent or
\* not, the subscriber logs the end of the cleanup and returns
LogoutNotify(i) ==
    /\ Running
    /\ i \in CallIds
    /\ calls[i].closeH = "notify"
    /\ calls' = [calls EXCEPT ![i].closeH = "idle"]
    /\ UNCHANGED <<activeSockets, socketCreationTime, store, sessionDir,
                   numbersFile, proc>>
    /\ UNCHANGED <<configVars, eventVars>>

\* an else branch with a retry counter of one: the close subscriber of a
\* socket that was itself made by a reconnect clears both maps and gives up
ReconnectOnce(i) ==
    /\ Running
    /\ i \in CallIds
    /\ calls[i].closeH = "cooldown"
    /\ activeSockets' = [activeSockets EXCEPT ![calls[i].num] = 0]
    /\ socketCreationTime' = [socketCreationTime EXCEPT ![calls[i].num] = 0]
    /\ calls' = IF calls[i].origin = 0
                THEN Append([calls EXCEPT ![i].closeH = "idle"],
                            EmpirePairEntry(calls[i].num, MockRes, i))
                ELSE [calls EXCEPT ![i].closeH = "idle"]
    /\ UNCHANGED <<store, sessionDir, numbersFile, proc>>
    /\ UNCHANGED <<configVars, eventVars>>

\* else branch after await delay(10000): both maps, then
\* EmpirePair(number, mockRes)
Reconnect(i) ==
    /\ Running
    /\ i \in CallIds
    /\ calls[i].closeH = "cooldown"
    /\ activeSockets' = [activeSockets EXCEPT ![calls[i].num] = 0]
    /\ socketCreationTime' = [socketCreationTime EXCEPT ![calls[i].num] = 0]
    /\ calls' = Append([calls EXCEPT ![i].closeH = "idle"],
                       EmpirePairEntry(calls[i].num, MockRes, i))
    /\ UNCHANGED <<store, sessionDir, numbersFile, proc>>
    /\ UNCHANGED <<configVars, eventVars>>

(***************************************************************************)
(* case 'deleteme' of the command subscriber of socket i                   *)
(***************************************************************************)
\* fs.removeSync(sessionPath); await deleteSessionFromStorage(number)
DeleteSession(i) ==
    /\ Running
    /\ i \in CallIds
    /\ calls[i].conn = "open"
    /\ calls[i].cmdH = "idle"
    /\ sessionDir' = [sessionDir EXCEPT ![calls[i].num] = Null]
    /\ calls' = [calls EXCEPT ![i].cmdH = "deleting"]
    /\ UNCHANGED <<activeSockets, socketCreationTime, store, numbersFile, proc>>
    /\ UNCHANGED configVars

\* the command arrives on socket i, whoever sent it
DeleteMe(i) ==
    /\ DeleteSession(i)
    /\ UNCHANGED eventVars

\* ws.close() on the registered socket
WsClose(ps, j) ==
    IF j # 0 /\ ps[j].conn \in {"connecting", "open"}
    THEN [ps EXCEPT ![j].conn = "closing"]
    ELSE ps

\* await deleteSessionFromStorage(number) is over: the record is deleted
\* (a failure is logged inside); if (activeSockets.has(...)) close the
\* registered socket and delete from both maps; then the reply is awaited
DeleteMeDone(i) ==
    /\ Running
    /\ i \in CallIds
    /\ calls[i].cmdH = "deleting"
    /\ \E dbOk \in BOOLEAN : store' = deleteSessionFromStorage(calls[i].num, dbOk)
    /\ sessionDir' = [sessionDir EXCEPT ![calls[i].num] = Null]
    /\ LET n == calls[i].num
           done == [calls EXCEPT ![i].cmdH = "replying"] IN
       IF activeSockets[n] # 0
       THEN /\ calls' = WsClose(done, activeSockets[n])
            /\ activeSockets' = [activeSockets EXCEPT ![n] = 0]
            /\ socketCreationTime' = [socketCreationTime EXCEPT ![n] = 0]
       ELSE /\ calls' = done
            /\ UNCHANGED <<activeSockets, socketCreationTime>>
    /\ UNCHANGED <<numbersFile, proc>>
    /\ UNCHANGED <<configVars, eventVars>>

\* await socket.sendMessage(sender, <SESSION DELETED>) is over: sent, and
\* the subscriber returns; or it threw, and the catch of the subscriber logs
\* and awaits the generic error message
DeleteReply(i, sent) ==
    /\ Running
    /\ i \in CallIds
    /\ calls[i].cmdH = "replying"
    /\ calls' = [calls EXCEPT ![i].cmdH = IF sent THEN "idle" ELSE "error"]
    /\ UNCHANGED <<activeSockets, socketCreationTime, store, sessionDir,
                   numbersFile, proc>>
    /\ UNCHANGED configVars

DeleteMeReplied(i) ==
    /\ \E sent \in BOOLEAN : DeleteReply(i, sent)
    /\ UNCHANGED eventVars

\* await socket.sendMessage(sender, <generic error>) in the catch of the
\* command subscriber is over: sent, or it threw and the promise of the
\* subscriber rejects, which nobody handles
CatchReply(i, sent) ==
    /\ Running
    /\ i \in CallIds
    /\ calls[i].cmdH = "error"
    /\ calls' = [calls EXCEPT ![i].cmdH = "idle"]
    /\ IF sent THEN proc' = proc ELSE proc' \in UnhandledRejection
    /\ UNCHANGED <<activeSockets, socketCreationTime, store, sessionDir,
                   numbersFile>>
    /\ UNCHANGED configVars

DeleteMeCaught(i) ==
    /\ \E sent \in BOOLEAN : CatchReply(i, sent)
    /\ UNCHANGED eventVars

(***************************************************************************)
(* process.on('exit'): every registered socket is closed and removed from  *)
(* both maps, the session directory is emptied; the process memory         *)
(* (invocations, sockets, pending responses) ends with the process.        *)
(***************************************************************************)
ProcessExit ==
    /\ proc \in {"running", "restarting"}
    /\ activeSockets' = [n \in Numbers |-> 0]
    /\ socketCreationTime' =
           [n \in Numbers |-> IF activeSockets[n] # 0 THEN 0
                              ELSE socketCreationTime[n]]
    /\ sessionDir' = [n \in Numbers |-> Null]
    /\ calls' = <<>>
    /\ proc' = "exited"
    /\ otpStore' = [n \in Numbers |-> NoOtp]
    /\ routes' = <<>>
    /\ UNCHANGED <<store, numbersFile, now, exchange, history>>
    /\ UNCHANGED eventVars

(***************************************************************************)
(* socket.ev.on('creds.update') of EmpirePair: the handler of one key       *)
(* rotation.  Handler k of socket i is calls[i].credsH[k].                  *)
(***************************************************************************)
\* the protocol library rotates the keys of a live socket: it updates
\* state.creds and emits creds.update; the subscriber, when attached, calls
\* saveCreds(), which serialises state.creds, and awaits the write
CredsUpdate(i) ==
    /\ Running
    /\ i \in CallIds
    /\ calls[i].conn \in {"connecting", "open"}
    /\ calls[i].creds.rev < MaxRotations
    /\ LET rotated == [calls[i].creds EXCEPT !.registered = TRUE, !.rev = @ + 1] IN
       calls' = [calls EXCEPT ![i] =
           [@ EXCEPT !.creds = rotated,
                     !.credsH = IF calls[i].subscribed
                                THEN Append(@, [pc |-> "save", data |-> rotated])
                                ELSE @]]
    /\ UNCHANGED <<activeSockets, socketCreationTime, store, sessionDir,
                   numbersFile, proc>>
    /\ UNCHANGED <<configVars, eventVars>>

\* await saveCreds() is over: creds.json holds what the handler serialised
\* and the handler awaits fs.readFile; or the write rejected, creds.json is
\* as it was and the promise of the subscriber rejects, which nobody handles
CredsSaved(i, k) ==
    /\ Running
    /\ i \in CallIds
    /\ k \in DOMAIN calls[i].credsH
    /\ calls[i].credsH[k].pc = "save"
    /\ \E written \in BOOLEAN :
         IF written
         THEN /\ sessionDir' = [sessionDir EXCEPT ![calls[i].num] =
                                    calls[i].credsH[k].data]
              /\ calls' = [calls EXCEPT ![i].credsH[k].pc = "read"]
              /\ proc' = proc
         ELSE /\ sessionDir' = sessionDir
              /\ calls' = [calls EXCEPT ![i].credsH[k] =
                               [pc |-> "failed", data |-> Null]]
              /\ proc' \in UnhandledRejection
    /\ UNCHANGED <<activeSockets, socketCreationTime, store, numbersFile>>
    /\ UNCHANGED <<configVars, eventVars>>

\* await fs.readFile is over: sessionData is what creds.json holds now, and
\* the handler awaits Session.findOneAndUpdate; a missing file rejects, and
\* nobody handles the rejection of the subscriber
CredsRead(i, k) ==
    /\ Running
    /\ i \in CallIds
    /\ k \in DOMAIN calls[i].credsH
    /\ calls[i].credsH[k].pc = "read"
    /\ IF sessionDir[calls[i].num].present
       THEN /\ calls' = [calls EXCEPT ![i].credsH[k] =
                             [pc |-> "update", data |-> sessionDir[calls[i].num]]]
            /\ proc' = proc
       ELSE /\ calls' = [calls EXCEPT ![i].credsH[k] =
                             [pc |-> "failed", data |-> Null]]
            /\ proc' \in UnhandledRejection
    /\ UNCHANGED <<activeSockets, socketCreationTime, store, sessionDir,
                   numbersFile>>
    /\ UNCHANGED <<configVars, eventVars>>

\* Session.findOneAndUpdate({ number }, { creds, ... }, { upsert: true }):
\* an insert takes the schema default of config
UpsertCreds(number, sessionData) ==
    [store EXCEPT ![number] =
        IF @.exists THEN [@ EXCEPT !.creds = sessionData]
                    ELSE SessionRecord(sessionData)]

\* the update is over: applied, or rejected and logged
CredsStored(i, k) ==
    /\ Running
    /\ i \in CallIds
    /\ k \in DOMAIN calls[i].credsH
    /\ calls[i].credsH[k].pc = "update"
    /\ \E dbOk \in BOOLEAN :
         /\ store' = IF dbOk THEN UpsertCreds(calls[i].num, calls[i].credsH[k].data)
                             ELSE store
         /\ calls' = [calls EXCEPT ![i].credsH[k].pc =
                           IF dbOk THEN "done" ELSE "failed"]
    /\ UNCHANGED <<activeSockets, socketCreationTime, sessionDir, numbersFile,
                   proc>>
    /\ UNCHANGED <<configVars, eventVars>>

(***************************************************************************)
(* Specifications                                                          *)
(***************************************************************************)
Next ==
    \/ \E number \in RawNumbers : GetRoot(number)
    \/ \E i \in 1..MaxCalls : RestoreCreds(i)
    \/ \E i \in 1..MaxCalls : OpenSocket(i)
    \/ \E i \in 1..MaxCalls : RequestPairingCode(i)
    \/ \E i \in 1..MaxCalls : Backoff(i)
    \/ \E i \in 1..MaxCalls : ConnOpen(i)
    \/ \E i \in 1..MaxCalls : OpenRegister(i)
    \/ \E i \in 1..MaxCalls : OpenWelcome(i)
    \/ \E i \in 1..MaxCalls : \E statusCode \in CloseStatuses :
           ConnClose(i, statusCode)
    \/ \E i \in 1..MaxCalls : LogoutCleanup(i)
    \/ \E i \in 1..MaxCalls : LogoutNotify(i)
    \/ \E i \in 1..MaxCalls : Reconnect(i)
    \/ ProcessExit

Spec == Init /\ [][Next]_vars

\* the timers of a running process do fire: a close subscriber that waits for
\* its cooldown does resume.  Requests, connection events, chat commands and
\* the end of the process are not owed.
Fairness == \A i \in 1..MaxCalls : WF_vars(Reconnect(i))

LiveSpec == Init /\ [][Next]_vars /\ Fairness

(***************************************************************************)
(* router.get('/update-config') and router.get('/verify-otp').  A query    *)
(* string is a sequence of tokens, <<>> when the parameter is missing.     *)
(***************************************************************************)
\* the number parameter of the requests: missing, the session's number
\* with a non-digit character, a number without session
RouteNumbers == { <<>>, <<"+", "1">>, <<"2">> }

ConfigStrings ==
    { <<>>,
      <<"{", "PREFIX", ":", "!", "}">>,
      <<"{", "PREFIX", ":", "#", "}">>,
      <<"{", "PREFIX">> }

\* an acceptance of every text as an empty document
JSONparseLenient(text) ==
    [ok |-> TRUE, value |-> ConfigDoc({})]

\* JSON.parse on the texts of an object with at most one member
JSONparse(text) ==
    IF Len(text) = 2 /\ text[1] = "{" /\ text[2] = "}"
    THEN [ok |-> TRUE, value |-> ConfigDoc({})]
    ELSE IF Len(text) = 5 /\ text[1] = "{" /\ text[3] = ":" /\ text[5] = "}"
    THEN [ok |-> TRUE, value |-> ConfigDoc({ <<text[2], text[4]>> })]
    ELSE [ok |-> FALSE, value |-> NoConfig]

\* generateOTP(): a random 6-digit string
OtpCodes == { "111111", "222222" }

\* the otp parameter of a verify-otp request, "" when missing
OtpParams == OtpCodes \cup { "" }

\* a store that keeps the request it already holds for the number
OtpSetKeepsFirst(number, request) ==
    IF otpStore[number].present THEN otpStore
    ELSE [otpStore EXCEPT ![number] = request]

\* otpStore.set(sanitizedNumber, { otp, expiry, newConfig })
OtpSet(number, request) == [otpStore EXCEPT ![number] = request]

\* a commit that leaves the verified request pending
OtpKept(number) == otpStore

\* otpStore.delete(sanitizedNumber)
OtpDelete(number) == [otpStore EXCEPT ![number] = NoOtp]

\* an expiry test that still accepts the code at the expiry time
ExpiredStrictly(storedData) == now > storedData.expiry

\* Date.now() >= storedData.expiry
Expired(storedData) == now >= storedData.expiry

\* a route handler suspended at an await, with its locals
RouteHandler(route, number, pc, otp, newConfig) ==
    [route |-> route, number |-> number, num |-> Sanitize(number), pc |-> pc,
     otp |-> otp, newConfig |-> newConfig]

Resume(r) == SubSeq(routes, 1, r - 1) \o SubSeq(routes, r + 1, Len(routes))

\* the route answers in the step that received the request
Reject(route, number, otp, configString, s, b) ==
    /\ exchange' = Exchange(exchange.seq + 1, route, number, otp, configString, s, b)
    /\ UNCHANGED <<routes, history>>

\* a suspended handler answers its request
Respond(r, s, b) ==
    /\ exchange' = Exchange(exchange.seq, routes[r].route, routes[r].number,
                            routes[r].otp, <<>>, s, b)
    /\ routes' = Resume(r)

\* router.get('/update-config') up to await sendOTP(...)
UpdateConfig(number, configString) ==
    /\ Running
    /\ exchange.seq < MaxRequests
    /\ Len(routes) < MaxRoutes
    /\ LET parsed == JSONparse(configString)
           sanitizedNumber == Sanitize(number) IN
       IF number = <<>> \/ configString = <<>>
       THEN /\ Reject("update-config", number, "", configString, 400, "required")
            /\ otpStore' = otpStore
       ELSE IF ~parsed.ok
       THEN /\ Reject("update-config", number, "", configString, 400, "invalid_config")
            /\ otpStore' = otpStore
       ELSE IF activeSockets[sanitizedNumber] = 0
       THEN /\ Reject("update-config", number, "", configString, 404, "no_session")
            /\ otpStore' = otpStore
       ELSE \E otp \in OtpCodes :
              LET request == OtpRequest(otp, now + OTP_EXPIRY, parsed.value) IN
              /\ otpStore' = OtpSet(sanitizedNumber, request)
              /\ routes' = Append(routes, RouteHandler("update-config", number,
                                      "sendOTP", otp, parsed.value))
              /\ exchange' = Exchange(exchange.seq + 1, "update-config", number,
                                      "", configString, 0, "none")
              /\ history' = [history EXCEPT ![sanitizedNumber] =
                                 [@ EXCEPT !.accepted = [request EXCEPT !.expiry = 0],
                                           !.verified = ""]]
    /\ UNCHANGED <<activeSockets, socketCreationTime, store, sessionDir,
                   numbersFile, calls, proc, now>>
    /\ UNCHANGED eventVars

\* await sendOTP(socket, sanitizedNumber, otp) is over: otp_sent, or the
\* catch that deletes the pending request and answers 500
OtpSent(r) ==
    /\ Running
    /\ r \in DOMAIN routes
    /\ routes[r].pc = "sendOTP"
    /\ \E delivered \in BOOLEAN :
         IF delivered
         THEN /\ Respond(r, 200, "otp_sent")
              /\ otpStore' = otpStore
         ELSE /\ Respond(r, 500, "send_failed")
              /\ otpStore' = OtpDelete(routes[r].num)
    /\ UNCHANGED <<activeSockets, socketCreationTime, store, sessionDir,
                   numbersFile, calls, proc, now, history>>
    /\ UNCHANGED eventVars

\* a mismatch branch that drops the pending request, as the expiry branch does
OtpDroppedOnMismatch(number) == OtpDelete(number)

\* if (storedData.otp !== otp) return res.status(400)...: the branch returns
\* and leaves the pending request of the number in otpStore
OtpOnMismatch(number) == otpStore

\* router.get('/verify-otp') up to await updateUserConfig(...)
VerifyOtp(number, otp) ==
    /\ Running
    /\ exchange.seq < MaxRequests
    /\ Len(routes) < MaxRoutes
    /\ LET sanitizedNumber == Sanitize(number)
           storedData == otpStore[sanitizedNumber] IN
       IF number = <<>> \/ otp = ""
       THEN /\ Reject("verify-otp", number, otp, <<>>, 400, "required")
            /\ otpStore' = otpStore
       ELSE IF ~storedData.present
       THEN /\ Reject("verify-otp", number, otp, <<>>, 400, "no_request")
            /\ otpStore' = otpStore
       ELSE IF Expired(storedData)
       THEN /\ Reject("verify-otp", number, otp, <<>>, 400, "expired")
            /\ otpStore' = OtpDelete(sanitizedNumber)
       ELSE IF storedData.otp # otp
       THEN /\ Reject("verify-otp", number, otp, <<>>, 400, "invalid_otp")
            /\ otpStore' = OtpOnMismatch(sanitizedNumber)
       ELSE /\ routes' = Append(routes, RouteHandler("verify-otp", number,
                                    "commit", otp, storedData.newConfig))
            /\ exchange' = Exchange(exchange.seq + 1, "verify-otp", number,
                                    otp, <<>>, 0, "none")
            /\ UNCHANGED <<otpStore, history>>
    /\ UNCHANGED <<activeSockets, socketCreationTime, store, sessionDir,
                   numbersFile, calls, proc, now>>
    /\ UNCHANGED eventVars

\* await updateUserConfig(...) is over.  Saved: otpStore.delete, then the
\* notification of a registered socket is awaited, or success is answered.
\* Rejected: the catch answers 500.
VerifyCommit(r) ==
    /\ Running
    /\ r \in DOMAIN routes
    /\ routes[r].pc = "commit"
    /\ \E dbOk \in BOOLEAN :
         IF dbOk
         THEN /\ store' = updateUserConfig(routes[r].num, routes[r].newConfig)
              /\ otpStore' = OtpDelete(routes[r].num)
              /\ history' = [history EXCEPT ![routes[r].num] =
                                 [@ EXCEPT !.verified = routes[r].otp,
                                           !.saved = TRUE]]
              /\ IF activeSockets[routes[r].num] # 0
                 THEN /\ routes' = [routes EXCEPT ![r].pc = "notify"]
                      /\ exchange' = exchange
                 ELSE Respond(r, 200, "success")
         ELSE /\ Respond(r, 500, "update_failed")
              /\ UNCHANGED <<store, otpStore, history>>
    /\ UNCHANGED <<activeSockets, socketCreationTime, sessionDir, numbersFile,
                   calls, proc, now>>
    /\ UNCHANGED eventVars

\* await socket.sendMessage(...) is over: success, or the catch's 500
VerifyNotified(r) ==
    /\ Running
    /\ r \in DOMAIN routes
    /\ routes[r].pc = "notify"
    /\ \E delivered \in BOOLEAN :
         IF delivered THEN Respond(r, 200, "success")
                      ELSE Respond(r, 500, "update_failed")
    /\ UNCHANGED <<activeSockets, socketCreationTime, store, sessionDir,
                   numbersFile, calls, proc, now, otpStore, history>>
    /\ UNCHANGED eventVars

\* time passes
Tick ==
    /\ now < MaxTicks * OTP_EXPIRY
    /\ now' = now + OTP_EXPIRY
    /\ UNCHANGED <<activeSockets, socketCreationTime, store, sessionDir,
                   numbersFile, calls, proc, otpStore, routes, exchange,
                   history>>
    /\ UNCHANGED eventVars

(***************************************************************************)
(* A session with its subscribers attached: EmpirePair has returned for a  *)
(* GET / of SessionNumber and the socket is connecting.  Either the call   *)
(* found no record and issued a pairing code, or it restored registered    *)
(* credentials.  From there the socket lives: key rotations and their      *)
(* handlers, the open subscriber, closes, deleteme, the end of the         *)
(* process.                                                                *)
(***************************************************************************)
SessionNumber == Sanitize(<<"+", "1">>)

\* EmpirePair of a number without record, after res.send({ code })
PairingCall ==
    Subscribed([EmpirePairEntry(SessionNumber, SendCode(NewRes(SessionNumber), TRUE), 0)
                   EXCEPT !.conn = "connecting", !.creds = FreshCreds,
                          !.attempts = 1, !.code = TRUE])

\* EmpirePair of a number whose record holds registered credentials
RestoredCall ==
    Subscribed([EmpirePairEntry(SessionNumber, NewRes(SessionNumber), 0)
                   EXCEPT !.conn = "connecting", !.creds = RegisteredCreds,
                          !.registered = TRUE, !.hadRecord = TRUE])

SessionInit ==
    /\ activeSockets = [n \in Numbers |-> 0]
    /\ socketCreationTime = [n \in Numbers |-> IF n = SessionNumber THEN 1 ELSE 0]
    /\ \/ /\ calls = <<PairingCall>>
          /\ store = [n \in Numbers |-> NoRecord]
          /\ sessionDir = [n \in Numbers |-> Null]
       \/ /\ calls = <<RestoredCall>>
          /\ store = [n \in Numbers |-> IF n = SessionNumber
                                        THEN SessionRecord(RegisteredCreds)
                                        ELSE NoRecord]
          /\ sessionDir = [n \in Numbers |-> IF n = SessionNumber
                                             THEN RegisteredCreds ELSE Null]
    /\ numbersFile = {}
    /\ proc = "running"
    /\ otpStore = [n \in Numbers |-> NoOtp]
    /\ now = 0
    /\ routes = <<>>
    /\ exchange = NoExchange
    /\ history = [n \in Numbers |-> NoHistory]
    /\ replay = ReplayAborted
    /\ inbound = NoInbound
    /\ console = <<>>

\* the events and continuations of a socket whose EmpirePair has returned
LifecycleNext ==
    \/ \E i \in 1..MaxCalls : ConnOpen(i)
    \/ \E i \in 1..MaxCalls : OpenRegister(i)
    \/ \E i \in 1..MaxCalls : OpenWelcome(i)
    \/ \E i \in 1..MaxCalls : \E statusCode \in CloseStatuses :
           ConnClose(i, statusCode)
    \/ \E i \in 1..MaxCalls : LogoutCleanup(i)
    \/ \E i \in 1..MaxCalls : LogoutNotify(i)
    \/ \E i \in 1..MaxCalls : Reconnect(i)
    \/ ProcessExit

\* case 'deleteme' of the command subscriber, step by step
DeleteMeNext ==
    \/ \E i \in 1..MaxCalls : DeleteMe(i)
    \/ \E i \in 1..MaxCalls : DeleteMeDone(i)
    \/ \E i \in 1..MaxCalls : DeleteMeReplied(i)
    \/ \E i \in 1..MaxCalls : DeleteMeCaught(i)

SocketNext ==
    \/ LifecycleNext
    \/ DeleteMeNext

\* the session with the requests of GET / and the deleteme command
CommandNext ==
    \/ Next
    \/ DeleteMeNext

CommandSpec == SessionInit /\ [][CommandNext]_vars

RotationNext ==
    \/ \E i \in 1..MaxCalls : CredsUpdate(i)
    \/ \E i \in 1..MaxCalls : \E k \in 1..MaxRotations : CredsSaved(i, k)
    \/ \E i \in 1..MaxCalls : \E k \in 1..MaxRotations : CredsRead(i, k)
    \/ \E i \in 1..MaxCalls : \E k \in 1..MaxRotations : CredsStored(i, k)
    \/ SocketNext

RotationSpec == SessionInit /\ [][RotationNext]_vars

\* the session with the configuration routes
ConfigNext ==
    \/ \E number \in RouteNumbers : \E configString \in ConfigStrings :
           UpdateConfig(number, configString)
    \/ \E r \in 1..MaxRoutes : OtpSent(r)
    \/ \E number \in RouteNumbers : \E otp \in OtpParams : VerifyOtp(number, otp)
    \/ \E r \in 1..MaxRoutes : VerifyCommit(r)
    \/ \E r \in 1..MaxRoutes : VerifyNotified(r)
    \/ Tick
    \/ LifecycleNext

ConfigSpec == SessionInit /\ [][ConfigNext]_vars

(***************************************************************************)
(* Vocabulary of the properties                                            *)
(***************************************************************************)
\* sockets of number n that were made and have not closed
LiveSockets(n) ==
    { i \in CallIds : calls[i].num = n
                      /\ calls[i].conn \in {"connecting", "open", "closing"} }

\* call i is a GET / request carrying a number
IsRequest(i) == calls[i].res.http /\ calls[i].res.number # <<>>

\* the route or EmpirePair has returned for call i
Returned(i) == calls[i].pc \in {"replied", "done", "failed"}

\* every pairing-code request of call i failed and the loop is over
AllAttemptsFailed(i) ==
    calls[i].pc = "done" /\ ~calls[i].registered /\ ~calls[i].code

\* the step ends the process
ExitStep == proc' = "exited"

\* the step runs the deletions of the logged-out (401) branch of a close of n
LogoutStep(n) ==
    \E i \in CallIds : /\ calls[i].num = n
                       /\ calls[i].closeH = "logout"
                       /\ calls'[i].closeH = "notify"

\* the step ends the logged-out (401) branch of a close of n: the subscriber
\* returns
LogoutEndStep(n) ==
    \E i \in CallIds : /\ calls[i].num = n
                       /\ calls[i].closeH = "notify"
                       /\ i \in DOMAIN calls'
                       /\ calls'[i].closeH = "idle"

\* the step completes the reconnect branch of a close of n
DropStep(n) ==
    \E i \in CallIds : /\ calls[i].num = n
                       /\ calls[i].closeH = "cooldown"
                       /\ calls'[i].closeH = "idle"

\* the step runs the deletions of a deleteme command of n
DeleteStep(n) ==
    \E i \in CallIds : /\ calls[i].num = n
                       /\ calls[i].cmdH = "deleting"
                       /\ calls'[i].cmdH = "replying"

\* the step receives a GET / request for the raw number
RequestStep(number) ==
    /\ Len(calls') = Len(calls) + 1
    /\ calls'[Len(calls')].res.http
    /\ calls'[Len(calls')].res.number = number

\* the step receives a verify-otp request with these parameters
VerifyCall(number, otp) ==
    /\ exchange'.seq = exchange.seq + 1
    /\ exchange'.route = "verify-otp"
    /\ exchange'.number = number
    /\ exchange'.otp = otp

\* the step receives an update-config request with these parameters
UpdateCall(number, configString) ==
    /\ exchange'.seq = exchange.seq + 1
    /\ exchange'.route = "update-config"
    /\ exchange'.number = number
    /\ exchange'.config = configString

\* a config parameter that is not JSON
MalformedConfig == <<"{", "PREFIX">>

(***************************************************************************)
(* Properties                                                              *)
(***************************************************************************)
\* C1: for every number, at most one socket that was made and has not
\* closed exists at any time, whatever the interleaving of the pair calls.
C1_AtMostOneConnection ==
    \A n \in Numbers : Cardinality(LiveSockets(n)) <= 1

\* C2: a GET / for a number the registry holds is answered 200
\* already_connected by the route and changes nothing else: no EmpirePair
\* call, no socket, no pairing-code request, registry, timestamps, session
\* directory and credential store unchanged.
C2_AlreadyConnectedNoEffect ==
    [][\A number \in RawNumbers \ {<<>>} :
          (activeSockets[Sanitize(number)] # 0 /\ RequestStep(number)) =>
              /\ calls'[Len(calls')] = Answered(number, 200, "already_connected")
              /\ calls'[Len(calls')].res.sends = 1
              /\ calls'[Len(calls')].conn = "none"
              /\ calls'[Len(calls')].attempts = 0
              /\ \A i \in CallIds : calls'[i] = calls[i]
              /\ UNCHANGED <<activeSockets, socketCreationTime, store,
                             sessionDir, numbersFile, proc>>]_vars

C2_Witness ==
    \E i \in CallIds : /\ calls[i].res.body = "already_connected"
                       /\ calls[i].res.number = <<"+", "1">>
                       /\ activeSockets[<<"1">>] # 0

\* C3 as stated: a number leaves the registry only by an explicit delete, an
\* unauthorized (401) close or process exit.
C3_OnlyDeleteLogoutExit ==
    [][\A n \in Numbers :
          (activeSockets[n] # 0 /\ activeSockets'[n] = 0) =>
              (ExitStep \/ LogoutStep(n) \/ DeleteStep(n))]_vars

\* C3 amended: a number leaves the registry only by an explicit delete, a
\* close of a connection of that number (unauthorized, or any other reason
\* once its cooldown is over), or process exit.
C3_OnlyDeleteCloseExit ==
    [][\A n \in Numbers :
          (activeSockets[n] # 0 /\ activeSockets'[n] = 0) =>
              (ExitStep \/ LogoutStep(n) \/ DropStep(n) \/ DeleteStep(n))]_vars

\* a number that was registered and welcomed has left the registry through
\* the reconnect branch of its socket's close
C3_Witness ==
    \E i \in CallIds :
        /\ calls[i].status = ConnectionClosed
        /\ calls[i].closeH = "idle"
        /\ calls[i].num \in numbersFile
        /\ activeSockets[calls[i].num] = 0
        /\ \E j \in CallIds : calls[j].origin = i

\* C4: while a call that found no Session record holds a pairing code and
\* its socket has not reported open, the registry does not contain its number.
C4_NotRegisteredBeforeOpen ==
    \A i \in CallIds :
        (calls[i].code /\ ~calls[i].hadRecord /\ calls[i].conn = "connecting")
            => activeSockets[calls[i].num] = 0

\* C5: once the handler of a GET / request with a number has returned, the
\* request has its response, one of {code}, already_connected or {error}.
C5_RequestAnswered ==
    \A i \in CallIds :
        (IsRequest(i) /\ Returned(i)) =>
            calls[i].res.body \in {"code", "already_connected", "error"}

\* C6: a response is sent at most once: the first send counts one, and once
\* a response has been sent no later step touches it.
C6_RespondsOnce ==
    [][\A i \in CallIds :
          \/ ExitStep
          \/ /\ calls[i].res.headersSent => calls'[i].res = calls[i].res
             /\ calls'[i].res.sends <= 1]_vars

\* the code was sent and the orchestration went on (the socket closed and
\* its subscriber ran)
C6_Witness ==
    \E i \in CallIds : /\ calls[i].res.body = "code"
                       /\ calls[i].res.sends = 1
                       /\ calls[i].conn = "closed"
                       /\ calls[i].closeH = "idle"

\* C7: a call never makes more than MAX_RETRIES pairing-code requests, and
\* when all of them failed it has made exactly MAX_RETRIES.
C7_ExactlyMaxRetries ==
    \A i \in CallIds :
        /\ calls[i].attempts <= MAX_RETRIES
        /\ AllAttemptsFailed(i) => calls[i].attempts = MAX_RETRIES

C7_Witness ==
    \E i \in CallIds : AllAttemptsFailed(i) /\ calls[i].attempts = MAX_RETRIES

\* C8: when every pairing-code request failed, the call has ended in failure
\* and its HTTP response carries the 503 error.
C8_AllFailedGives503 ==
    \A i \in CallIds :
        (IsRequest(i) /\ AllAttemptsFailed(i)) =>
            /\ calls[i].res.status = 503
            /\ calls[i].res.body = "error"

\* C9: no EmpirePair call is made by the close subscriber of a socket that
\* closed with status 401.
C9_NoReconnectAfterLogout ==
    \A j \in CallIds :
        calls[j].origin # 0 => calls[calls[j].origin].status # LoggedOut

\* a 401 close was handled to the end
C9_Witness ==
    \E i \in CallIds : /\ calls[i].status = LoggedOut
                       /\ calls[i].conn = "closed"
                       /\ calls[i].closeH = "idle"

\* the EmpirePair calls that led to call j, one per drop: the length of the
\* chain of close subscribers behind it
RECURSIVE Generation(_)
Generation(j) ==
    IF calls[j].origin = 0 THEN 0 ELSE 1 + Generation(calls[j].origin)

\* C10: while the process runs, every close with a status other than 401 is
\* followed, once the cooldown is over, by an EmpirePair call for the number,
\* and so is every later drop, of the socket the reconnect made as well:
\* nothing counts the reconnects.
C10_DropLeadsToPair ==
    \A i \in 1..MaxDropCalls :
        (i \in CallIds /\ calls[i].closeH = "cooldown")
            ~> (\/ ~Running
                \/ \E j \in CallIds : calls[j].origin = i
                                      /\ calls[j].num = calls[i].num)

\* a session has dropped MaxDrops times in a row, each drop of the socket
\* made by the reconnect before, and each was followed by an EmpirePair call
C10_Witness ==
    \E j \in CallIds :
        /\ Generation(j) = MaxDrops
        /\ calls[j].num = SessionNumber
        /\ \A i \in 1..(j - 1) : calls[i].status = ConnectionClosed

\* C11: when the close subscriber of a 401 close of a number returns, the
\* Session record of the number is deleted and neither the registry nor the
\* creation-timestamp map contains the number.
C11_LogoutLeavesNothing ==
    [][\A n \in Numbers :
          LogoutEndStep(n) => /\ store'[n] = NoRecord
                              /\ activeSockets'[n] = 0
                              /\ socketCreationTime'[n] = 0]_vars

\* C12: while a call is in its pairing-code handshake (the request and its
\* delays), the credentials-update and connection-open subscribers of its
\* socket are already attached.
C12_SubscribedBeforeHandshake ==
    \A i \in CallIds :
        calls[i].pc \in {"request", "backoff"} => calls[i].subscribed

\* C13: the open subscriber starts its welcome and admin notifications with
\* the number registered, and when they are over, sent or failed, the
\* subscriber has not touched the registry entry and the process runs on as
\* before, no restart started by the step.
C13_RegisteredBeforeNotifying ==
    [][\A i \in CallIds :
          /\ (calls[i].openH = "settle" /\ i \in DOMAIN calls'
                 /\ calls'[i].openH = "welcome")
                => activeSockets'[calls[i].num] = i
          /\ (calls[i].openH = "welcome" /\ i \in DOMAIN calls'
                 /\ calls'[i].openH = "idle")
                => /\ activeSockets'[calls[i].num] = activeSockets[calls[i].num]
                   /\ proc' = proc]_vars

\* every creds.update handler of socket i has ended with its store write
\* applied
AllRotationsStored(i) ==
    /\ calls[i].creds.rev > 0
    /\ Len(calls[i].credsH) = calls[i].creds.rev
    /\ \A k \in DOMAIN calls[i].credsH : calls[i].credsH[k].pc = "done"

\* C14: once every creds.update handler of a socket has completed with a
\* successful store write, the credential blob persisted for its number is
\* the blob of the most recent rotation.
C14_LatestRotationPersisted ==
    \A i \in CallIds :
        (AllRotationsStored(i) /\ store[calls[i].num].exists)
            => store[calls[i].num].creds = calls[i].creds

\* C15: every persisted Session record has a credential blob.
C15_RecordsHaveCreds ==
    \A n \in Numbers : store[n].exists => store[n].creds.present

\* C16: a verify-otp call for a number made at or after the expiry time of
\* its pending request answers 400 expired whatever the code, the right one
\* included, commits no configuration and leaves no pending request.
C16_ExpiredAlwaysFails ==
    [][\A number \in RouteNumbers \ {<<>>} : \A otp \in OtpCodes :
          LET n == Sanitize(number) IN
          (otpStore[n].present /\ now >= otpStore[n].expiry
               /\ VerifyCall(number, otp))
            => /\ exchange'.status = 400
               /\ exchange'.body = "expired"
               /\ store' = store
               /\ routes' = routes
               /\ otpStore'[n] = NoOtp]_vars

\* the code of the request accepted last was refused as expired
C16_Witness ==
    /\ exchange.route = "verify-otp"
    /\ exchange.body = "expired"
    /\ exchange.otp = history[Sanitize(exchange.number)].accepted.otp
    /\ ~otpStore[Sanitize(exchange.number)].present

\* C17: once a verify-otp call for a number has succeeded, and no
\* update-config was accepted since, a verify-otp call with the same code
\* answers 400 "no request found" and commits nothing.
C17_OtpSingleUse ==
    [][\A number \in RouteNumbers \ {<<>>} : \A otp \in OtpCodes :
          (history[Sanitize(number)].verified = otp /\ VerifyCall(number, otp))
            => /\ exchange'.status = 400
               /\ exchange'.body = "no_request"
               /\ store' = store
               /\ routes' = routes
               /\ otpStore' = otpStore]_vars

C17_Witness ==
    /\ exchange.route = "verify-otp"
    /\ exchange.body = "no_request"
    /\ exchange.otp # ""
    /\ exchange.otp = history[Sanitize(exchange.number)].verified

\* C18: a verify-otp call passes only with the code of the update-config
\* request accepted last for the number, and the configuration it goes on to
\* commit is the payload of that request.
C18_LastRequestWins ==
    [][\A number \in RouteNumbers \ {<<>>} : \A otp \in OtpCodes :
          (VerifyCall(number, otp) /\ exchange'.status = 0)
            => /\ otp = history[Sanitize(number)].accepted.otp
               /\ Len(routes') = Len(routes) + 1
               /\ routes'[Len(routes')].pc = "commit"
               /\ routes'[Len(routes')].newConfig =
                      history[Sanitize(number)].accepted.newConfig]_vars

\* two requests with different codes and payloads were accepted (the first
\* still awaits its sendOTP) and the code of the second has passed
C18_Witness ==
    \E a, c \in DOMAIN routes :
        /\ routes[a].route = "update-config"
        /\ routes[c].route = "verify-otp"
        /\ routes[a].num = routes[c].num
        /\ routes[c].otp = history[routes[c].num].accepted.otp
        /\ routes[c].newConfig = history[routes[c].num].accepted.newConfig
        /\ routes[a].otp # routes[c].otp
        /\ routes[a].newConfig # routes[c].newConfig

\* C19: an update-config request with malformed JSON is answered 400
\* invalid config format, one for a number without live session is answered
\* with an error, and a rejected request generates no OTP and leaves the OTP
\* store and the credential store unchanged.
C19_RejectedChangesNothing ==
    [][\A number \in RouteNumbers \ {<<>>} :
       \A configString \in ConfigStrings \ {<<>>} :
          UpdateCall(number, configString) =>
            /\ configString = MalformedConfig
                 => (exchange'.status = 400 /\ exchange'.body = "invalid_config")
            /\ activeSockets[Sanitize(number)] = 0 => exchange'.status >= 400
            /\ exchange'.status >= 400
                 => (otpStore' = otpStore /\ store' = store /\ routes' = routes)]_vars

\* malformed JSON for a number with a live session was rejected
C19_Witness ==
    /\ exchange.route = "update-config"
    /\ exchange.config = MalformedConfig
    /\ exchange.body = "invalid_config"
    /\ activeSockets[Sanitize(exchange.number)] # 0

\* C20: for every number, a configuration saved is the configuration loaded
\* next, and a number whose configuration was never saved loads the
\* process-wide default configuration, with or without a Session record.
C20_ConfigRoundTrip ==
    \A n \in Numbers :
        /\ \A text \in ConfigStrings :
               JSONparse(text).ok =>
                   ConfigIn(updateUserConfig(n, JSONparse(text).value), n, TRUE)
                       = JSONparse(text).value
        /\ ~history[n].saved => loadUserConfig(n, TRUE) = DefaultConfig

\* the verify-otp handlers of n suspended at await updateUserConfig(...)
Committing(n) ==
    { r \in DOMAIN routes : /\ routes[r].route = "verify-otp"
                            /\ routes[r].pc = "commit"
                            /\ routes[r].num = n }

\* the step is a step of a route handler
RouteStep == <<routes, exchange>>' # <<routes, exchange>> /\ proc' = proc

\* the step resumes a verify-otp handler of n after await updateUserConfig
ConsumeStep(n) ==
    /\ RouteStep
    /\ Cardinality(Committing(n)') < Cardinality(Committing(n))

\* the step passes the tests of a verify-otp call for n
AcceptStep(n) ==
    /\ RouteStep
    /\ Cardinality(Committing(n)') > Cardinality(Committing(n))

\* C21: the persisted configuration of a number changes through the routes
\* only in the commit of a verify-otp call that supplied the code of the
\* number's pending request before its expiry; the value committed is the
\* payload of that request; and once such a call has consumed the request,
\* the OTP record is deleted whether or not the store write or the
\* notification succeeds.
C21_CommitOnlyVerifiedPayload ==
    [][\A n \in Numbers :
          /\ AcceptStep(n) =>
                 /\ otpStore[n].present
                 /\ ~Expired(otpStore[n])
                 /\ exchange'.otp = otpStore[n].otp
                 /\ routes'[Len(routes')].newConfig = otpStore[n].newConfig
          /\ (RouteStep /\ store'[n] # store[n]) =>
                 /\ ConsumeStep(n)
                 /\ \E r \in Committing(n) :
                        store'[n].config = routes[r].newConfig
          /\ ConsumeStep(n) => ~otpStore'[n].present]_vars

(***************************************************************************)
(* The subscribers of messages.upsert: setupStatusHandlers,                *)
(* setupMessageHandlers and the command subscriber of setupCommandHandlers *)
(***************************************************************************)
\* cfg.KEY, "undefined" when the document has no such member
ConfigValue(cfg, key) ==
    IF \E p \in cfg.doc : p[1] = key
    THEN (CHOOSE p \in cfg.doc : p[1] = key)[2]
    ELSE "undefined"

\* config.KEY === 'true': config is the object exported by config.js
Enabled(key) == ConfigValue(DefaultConfig, key) = "true"

\* what the status subscriber of a socket attempts for one status broadcast:
\* the recording presence, the read receipt (all retries), the reaction; a
\* call that throws ends the handler in its catch
StatusOps(presenceOk, readOk) ==
    LET recording == Enabled("AUTO_RECORDING")
        view == Enabled("AUTO_VIEW_STATUS")
        like == Enabled("AUTO_LIKE_STATUS") IN
    (IF recording THEN {"recording"} ELSE {})
      \cup (IF view /\ (recording => presenceOk) THEN {"view"} ELSE {})
      \cup (IF like /\ (recording => presenceOk) /\ (view => readOk)
            THEN {"like"} ELSE {})

\* messages.upsert of a status broadcast on socket i
StatusUpsert(i) ==
    /\ Running
    /\ i \in CallIds
    /\ calls[i].conn = "open"
    /\ \E presenceOk \in BOOLEAN : \E readOk \in BOOLEAN :
         inbound' = Inbound("status", calls[i].num, <<>>, <<>>, FALSE, <<>>,
                            <<>>, FALSE, "none",
                            StatusOps(presenceOk, readOk))
    /\ UNCHANGED <<activeSockets, socketCreationTime, store, sessionDir,
                   numbersFile, calls, proc, replay, console>>
    /\ UNCHANGED configVars

(***************************************************************************)
(* Strings of the command subscriber: a body is a sequence of characters   *)
(***************************************************************************)
\* config.PREFIX
PREFIX == <<".">>

\* config.OWNER_NUMBER
OWNER_NUMBER == <<"2", "6", "3", "7", "8", "6", "8", "3", "1", "0", "9", "1">>

\* the white space String.prototype.trim removes, here the space and the tab
WhiteSpace == {" ", "\t"}

\* s.startsWith(p)
StartsWith(s, p) == Len(s) >= Len(p) /\ SubSeq(s, 1, Len(p)) = p

\* s.slice(k)
Slice(s, k) == SubSeq(s, k + 1, Len(s))

\* s.includes(sub)
Includes(s, sub) ==
    \E k \in 0..(Len(s) - Len(sub)) : SubSeq(s, k + 1, k + Len(sub)) = sub

RECURSIVE TrimStart(_)
TrimStart(s) ==
    IF s # <<>> /\ Head(s) \in WhiteSpace THEN TrimStart(Tail(s)) ELSE s

RECURSIVE TrimEnd(_)
TrimEnd(s) ==
    IF s # <<>> /\ s[Len(s)] \in WhiteSpace
    THEN TrimEnd(SubSeq(s, 1, Len(s) - 1))
    ELSE s

\* s.trim()
Trim(s) == TrimEnd(TrimStart(s))

\* s.split(' '): the pieces between single spaces, empty pieces included
RECURSIVE Split(_)
Split(s) ==
    IF \A k \in DOMAIN s : s[k] # " "
    THEN << s >>
    ELSE LET k == CHOOSE j \in DOMAIN s :
                      s[j] = " " /\ \A h \in 1..(j - 1) : s[h] # " " IN
         << SubSeq(s, 1, k - 1) >> \o Split(Slice(s, k))

\* s.split(/ +/): a run of spaces is one separator, so that only the first
\* and the last piece can be empty
SplitRuns(s) ==
    LET pieces == Split(s)
        kept == { k \in DOMAIN pieces :
                     pieces[k] # <<>> \/ k = 1 \/ k = Len(pieces) }
        Nth(m) == CHOOSE k \in kept : Cardinality({ h \in kept : h < k }) = m - 1 IN
    [m \in 1..Cardinality(kept) |-> pieces[Nth(m)]]

\* ch.toLowerCase() on the letters of the bodies
LowerCase(ch) ==
    CASE ch = "P" -> "p"
      [] ch = "I" -> "i"
      [] ch = "N" -> "n"
      [] ch = "G" -> "g"
      [] OTHER -> ch

\* s.toLowerCase()
ToLowerCase(s) == [k \in DOMAIN s |-> LowerCase(s[k])]

\* a prefix test that takes every body for a command
IsCmdAlways(body) == TRUE

\* var isCmd = (body || '').startsWith(prefix)
IsCmd(body) == StartsWith(body, PREFIX)

\* const command = isCmd ? body.slice(prefix.length).trim().split(' ')
\*     .shift().toLowerCase() : '.'
Command(body) ==
    IF IsCmd(body)
    THEN ToLowerCase(Head(Split(Trim(Slice(body, Len(PREFIX))))))
    ELSE <<".">>

\* var args = (body || '').trim().split(/ +/).slice(1)
Args(body) == Tail(SplitRuns(Trim(body)))

\* const isbot = botNumber.includes(senderNumber);
\* const isOwner = isbot ? isbot : developers.includes(senderNumber)
isOwner(senderNumber, botNumber) ==
    IF Includes(botNumber, senderNumber) THEN TRUE
    ELSE Includes(OWNER_NUMBER, senderNumber)

\* the case labels of the switch, here two of them; "none" is the default
\* case
HandlerTable ==
    { <<"p", "i", "n", "g">>, <<"b", "l", "o", "c", "k">>,
      <<"d", "e", "l", "e", "t", "e", "m", "e">> }

\* switch (command)
HandlerOf(command) ==
    IF command = <<"p", "i", "n", "g">> THEN "ping"
    ELSE IF command = <<"b", "l", "o", "c", "k">> THEN "block"
    ELSE IF command = <<"d", "e", "l", "e", "t", "e", "m", "e">> THEN "deleteme"
    ELSE "none"

\* the bodies of the inbound messages: .ping, .Ping a  b (two spaces),
\* . ping a, ping, !ping, .x, the prefix alone, no text, .block, .ping<TAB>a
Bodies ==
    { <<".", "p", "i", "n", "g">>,
      <<".", "P", "i", "n", "g", " ", "a", " ", " ", "b">>,
      <<".", " ", "p", "i", "n", "g", " ", "a">>,
      <<"p", "i", "n", "g">>,
      <<"!", "p", "i", "n", "g">>,
      <<".", "x">>,
      <<".">>,
      <<>>,
      <<".", "b", "l", "o", "c", "k">>,
      <<".", "p", "i", "n", "g", "\t", "a">> }

\* the sender numbers: the bot's own number, the owner, a number that is part
\* of the owner's, no number, a stranger
Senders == { <<"1">>, OWNER_NUMBER, <<"2">>, <<>>, <<"5">> }

\* messages.upsert of a chat message on socket i.  setupMessageHandlers sets
\* the recording presence when the toggle is on.  The command subscriber
\* computes its locals, returns on an empty command, and enters the switch:
\* a case runs up to its first await, the default case does nothing.
MessagesUpsert(i, body, senderNumber) ==
    /\ Running
    /\ i \in CallIds
    /\ calls[i].conn = "open"
    /\ calls[i].cmdH = "idle"
    /\ LET command == Command(body)
           handler == IF command = <<>> THEN "none" ELSE HandlerOf(command) IN
       /\ inbound' = Inbound("message", calls[i].num, body, senderNumber,
                             IsCmd(body), command, Args(body),
                             isOwner(senderNumber, calls[i].num), handler,
                             IF Enabled("AUTO_RECORDING")
                             THEN {"recording"} ELSE {})
       /\ calls' = [calls EXCEPT ![i].cmdH =
                        IF handler = "none" THEN "idle" ELSE "handler"]
    /\ UNCHANGED <<activeSockets, socketCreationTime, store, sessionDir,
                   numbersFile, proc, replay, console>>
    /\ UNCHANGED configVars

\* the body of a deleteme command
DeleteBody == <<".", "d", "e", "l", "e", "t", "e", "m", "e">>

\* messages.upsert of a deleteme command from senderNumber on socket i: the
\* command subscriber computes its locals and enters case 'deleteme', which
\* tests neither isOwner nor the sender and runs up to its first await
DeleteMeFrom(i, senderNumber) ==
    /\ HandlerOf(Command(DeleteBody)) = "deleteme"
    /\ DeleteSession(i)
    /\ inbound' = Inbound("message", calls[i].num, DeleteBody, senderNumber,
                          IsCmd(DeleteBody), Command(DeleteBody),
                          Args(DeleteBody),
                          isOwner(senderNumber, calls[i].num), "deleteme",
                          IF Enabled("AUTO_RECORDING")
                          THEN {"recording"} ELSE {})
    /\ UNCHANGED <<replay, console>>

\* the case of the switch is over.  It sent its reply (block: the refusal
\* when the sender is not the owner) and the subscriber returns; or it threw,
\* and the catch of the subscriber logs and awaits the generic error message.
HandlerReturns(i) ==
    /\ Running
    /\ i \in CallIds
    /\ calls[i].cmdH = "handler"
    /\ \E threw \in BOOLEAN :
         IF threw
         THEN /\ calls' = [calls EXCEPT ![i].cmdH = "error"]
              /\ inbound' = inbound
         ELSE /\ calls' = [calls EXCEPT ![i].cmdH = "idle"]
              /\ inbound' = [inbound EXCEPT !.replies =
                     Append(@, IF inbound.handler = "block" /\ ~inbound.isOwner
                               THEN "refused" ELSE "result")]
    /\ UNCHANGED <<activeSockets, socketCreationTime, store, sessionDir,
                   numbersFile, proc, replay, console>>
    /\ UNCHANGED configVars

\* the reply of case 'deleteme', with the replies kept
DeleteMeAnswered(i) ==
    /\ \E sent \in BOOLEAN :
         /\ DeleteReply(i, sent)
         /\ inbound' = IF sent
                       THEN [inbound EXCEPT !.replies = Append(@, "result")]
                       ELSE inbound
    /\ UNCHANGED <<replay, console>>

\* the catch of the command subscriber, with the replies kept
ErrorReply(i) ==
    /\ \E sent \in BOOLEAN :
         /\ CatchReply(i, sent)
         /\ inbound' = IF sent
                       THEN [inbound EXCEPT !.replies = Append(@, "error")]
                       ELSE [inbound EXCEPT !.escaped = TRUE]
    /\ UNCHANGED <<replay, console>>

(***************************************************************************)
(* A live session: the socket of SessionNumber, made with the registered   *)
(* credentials of its record, has opened, and its open subscriber has      *)
(* registered it and sent the welcome message.                             *)
(***************************************************************************)
LiveCall == [RestoredCall EXCEPT !.conn = "open"]

LiveInit ==
    /\ activeSockets = [n \in Numbers |-> IF n = SessionNumber THEN 1 ELSE 0]
    /\ socketCreationTime = [n \in Numbers |-> IF n = SessionNumber THEN 1 ELSE 0]
    /\ calls = <<LiveCall>>
    /\ store = [n \in Numbers |-> IF n = SessionNumber
                                  THEN SessionRecord(RegisteredCreds)
                                  ELSE NoRecord]
    /\ sessionDir = [n \in Numbers |-> IF n = SessionNumber
                                       THEN RegisteredCreds ELSE Null]
    /\ numbersFile = {SessionNumber}
    /\ proc = "running"
    /\ otpStore = [n \in Numbers |-> NoOtp]
    /\ now = 0
    /\ routes = <<>>
    /\ exchange = NoExchange
    /\ history = [n \in Numbers |-> NoHistory]
    /\ replay = ReplayAborted
    /\ inbound = NoInbound
    /\ console = <<>>

\* the config parameters that switch a toggle on
ToggleStrings ==
    { <<"{", "AUTO_VIEW_STATUS", ":", "true", "}">>,
      <<"{", "AUTO_LIKE_STATUS", ":", "true", "}">>,
      <<"{", "AUTO_RECORDING", ":", "true", "}">> }

\* the live session with the configuration routes and its inbound events
ToggleNext ==
    \/ \E number \in RouteNumbers : \E configString \in ToggleStrings :
           UpdateConfig(number, configString)
    \/ \E r \in 1..MaxRoutes : OtpSent(r)
    \/ \E number \in RouteNumbers : \E otp \in OtpParams : VerifyOtp(number, otp)
    \/ \E r \in 1..MaxRoutes : VerifyCommit(r)
    \/ \E r \in 1..MaxRoutes : VerifyNotified(r)
    \/ \E i \in 1..MaxCalls : StatusUpsert(i)
    \/ \E i \in 1..MaxCalls : \E senderNumber \in Senders :
           MessagesUpsert(i, <<>>, senderNumber)

ToggleSpec == LiveInit /\ [][ToggleNext]_vars

\* the live session with the chat messages it receives
DispatchNext ==
    \/ \E i \in 1..MaxCalls : \E body \in Bodies : \E senderNumber \in Senders :
           MessagesUpsert(i, body, senderNumber)
    \/ \E i \in 1..MaxCalls : HandlerReturns(i)
    \/ \E i \in 1..MaxCalls : ErrorReply(i)
    \/ \E i \in 1..MaxCalls : \E senderNumber \in Senders :
           DeleteMeFrom(i, senderNumber)
    \/ \E i \in 1..MaxCalls : DeleteMeDone(i)
    \/ \E i \in 1..MaxCalls : DeleteMeAnswered(i)
    \/ \E i \in 1..MaxCalls : \E statusCode \in CloseStatuses :
           ConnClose(i, statusCode)
    \/ \E i \in 1..MaxCalls : LogoutCleanup(i)
    \/ \E i \in 1..MaxCalls : LogoutNotify(i)
    \/ \E i \in 1..MaxCalls : Reconnect(i)

DispatchSpec == LiveInit /\ [][DispatchNext]_vars

\* the live session dropping again and again: the closes of its sockets, the
\* EmpirePair calls of the close subscribers and the opening of the sockets
\* they make, with GET / requests in between
DropNext ==
    \/ \E number \in RawNumbers : GetRoot(number)
    \/ \E i \in 1..MaxDropCalls : \E statusCode \in CloseStatuses :
           Drop(i, statusCode)
    \/ \E i \in 1..MaxDropCalls : LogoutCleanup(i)
    \/ \E i \in 1..MaxDropCalls : LogoutNotify(i)
    \/ \E i \in 1..MaxDropCalls : Reconnect(i)
    \/ \E i \in 1..MaxDropCalls : RestoreCreds(i)
    \/ \E i \in 1..MaxDropCalls : OpenSocket(i)
    \/ \E i \in 1..MaxDropCalls : RequestPairingCode(i)
    \/ \E i \in 1..MaxDropCalls : Backoff(i)
    \/ \E i \in 1..MaxDropCalls : ConnOpen(i)
    \/ \E i \in 1..MaxDropCalls : OpenRegister(i)
    \/ \E i \in 1..MaxDropCalls : OpenWelcome(i)
    \/ ProcessExit

\* the cooldown timers of a running process do fire
DropSpec ==
    /\ LiveInit
    /\ [][DropNext]_vars
    /\ \A i \in 1..MaxDropCalls : WF_vars(Reconnect(i))

\* the toggles a configuration document switches on, as operations
EnabledOps(cfg) ==
    (IF ConfigValue(cfg, "AUTO_RECORDING") = "true" THEN {"recording"} ELSE {})
      \cup (IF ConfigValue(cfg, "AUTO_VIEW_STATUS") = "true" THEN {"view"} ELSE {})
      \cup (IF ConfigValue(cfg, "AUTO_LIKE_STATUS") = "true" THEN {"like"} ELSE {})

\* the step handles an inbound event of this kind on socket i
EventStep(i, kind) ==
    /\ inbound' # inbound
    /\ inbound'.kind = kind
    /\ inbound'.replies = <<>>
    /\ ~inbound'.escaped
    /\ inbound'.num = calls[i].num
    /\ calls[i].conn = "open"

\* C22: once a configuration has been committed through verify-otp for a
\* number whose socket is registered, every inbound event on that socket is
\* handled with the toggles of the committed configuration: a status
\* broadcast attempts nothing the configuration switches off and something
\* when it switches something on, a chat message sets the recording presence
\* exactly when the configuration switches it on.
C22_EventsUseCommittedToggles ==
    [][\A i \in CallIds :
          LET n == calls[i].num IN
          (history[n].saved /\ store[n].exists /\ activeSockets[n] = i) =>
            /\ EventStep(i, "status") =>
                   /\ inbound'.ops \subseteq EnabledOps(store[n].config)
                   /\ EnabledOps(store[n].config) # {} => inbound'.ops # {}
            /\ EventStep(i, "message") =>
                   inbound'.ops = EnabledOps(store[n].config) \cap {"recording"}]_vars

(***************************************************************************)
(* autoReconnectFromMongoDB                                                *)
(***************************************************************************)
\* the sequences Session.find({}) can return for a set of records
RECURSIVE Orders(_)
Orders(S) ==
    IF S = {} THEN { <<>> }
    ELSE UNION { { <<n>> \o t : t \in Orders(S \ {n}) } : n \in S }

\* if (!activeSockets.has(session.number)) is false: the loop goes on to the
\* next record without an await
RECURSIVE SkipRegistered(_)
SkipRegistered(todo) ==
    IF todo # <<>> /\ activeSockets[Head(todo)] # 0
    THEN SkipRegistered(Tail(todo))
    ELSE todo

\* for (const session of sessions) from the records todo: up to
\* await EmpirePair(session.number, mockRes), or to the end of the function
ReplayIterate(found, todo) ==
    LET rest == SkipRegistered(todo) IN
    /\ rest # <<>> => Room
    /\ IF rest = <<>>
       THEN /\ replay' = Replay("done", found, <<>>, 0)
            /\ calls' = calls
       ELSE /\ replay' = Replay("await", found, rest, Len(calls) + 1)
            /\ calls' = Append(calls, EmpirePairEntry(Head(rest), MockRes, 0))

\* await Session.find({}) is over: the loop starts, or the catch logs
ReplayFind ==
    /\ Running
    /\ replay.kind = "startup"
    /\ replay.pc = "find"
    /\ \E dbOk \in BOOLEAN :
         IF dbOk
         THEN LET found == { n \in Numbers : store[n].exists } IN
              \E sessions \in Orders(found) : ReplayIterate(found, sessions)
         ELSE /\ replay' = ReplayAborted
              /\ calls' = calls
    /\ UNCHANGED <<activeSockets, socketCreationTime, store, sessionDir,
                   numbersFile, proc, inbound, console>>
    /\ UNCHANGED configVars

\* await EmpirePair(...) is over: it returned, and the loop logs and awaits
\* delay(1000); or it rejected, and the catch around the loop logs
ReplayReturned ==
    /\ Running
    /\ replay.kind = "startup"
    /\ replay.pc = "await"
    /\ calls[replay.call].pc \in {"done", "failed", "rejected"}
    /\ replay' = IF calls[replay.call].pc = "rejected"
                 THEN [replay EXCEPT !.pc = "aborted", !.call = 0]
                 ELSE [replay EXCEPT !.pc = "delay", !.call = 0]
    /\ UNCHANGED <<activeSockets, socketCreationTime, store, sessionDir,
                   numbersFile, calls, proc, inbound, console>>
    /\ UNCHANGED configVars

\* await delay(1000) is over: the next records
ReplayDelay ==
    /\ Running
    /\ replay.kind = "startup"
    /\ replay.pc = "delay"
    /\ ReplayIterate(replay.found, Tail(replay.todo))
    /\ UNCHANGED <<activeSockets, socketCreationTime, store, sessionDir,
                   numbersFile, proc, inbound, console>>
    /\ UNCHANGED configVars

\* the process has loaded the module: empty registry, the records of earlier
\* lifetimes, autoReconnectFromMongoDB() suspended at its first await
ReplayInit ==
    /\ activeSockets = [n \in Numbers |-> 0]
    /\ socketCreationTime = [n \in Numbers |-> 0]
    /\ store \in [Numbers -> InitRecords]
    /\ sessionDir = [n \in Numbers |-> Null]
    /\ numbersFile = {}
    /\ calls = <<>>
    /\ proc = "running"
    /\ otpStore = [n \in Numbers |-> NoOtp]
    /\ now = 0
    /\ routes = <<>>
    /\ exchange = NoExchange
    /\ history = [n \in Numbers |-> NoHistory]
    /\ replay = ReplayStart
    /\ inbound = NoInbound
    /\ console = <<>>

\* the start of the process: the replay, GET / requests, the EmpirePair calls
\* of both and the opening of their sockets
ReplayNext ==
    \/ ReplayFind
    \/ ReplayReturned
    \/ ReplayDelay
    \/ \E number \in RawNumbers : GetRoot(number)
    \/ \E i \in 1..MaxCalls : RestoreCreds(i)
    \/ \E i \in 1..MaxCalls : OpenSocket(i)
    \/ \E i \in 1..MaxCalls : RequestPairingCode(i)
    \/ \E i \in 1..MaxCalls : Backoff(i)
    \/ \E i \in 1..MaxCalls : ConnOpen(i)
    \/ \E i \in 1..MaxCalls : OpenRegister(i)
    \/ \E i \in 1..MaxCalls : OpenWelcome(i)

ReplaySpec == ReplayInit /\ [][ReplayNext]_vars

(***************************************************************************)
(* router.get('/connect-all') and router.get('/reconnect')                 *)
(***************************************************************************)
\* loops suspended at an await at the same time
MaxLoops == 1

\* activeSockets.has(number), the entry as the list holds it
HasSocket(number) == number \in Numbers /\ activeSockets[number] # 0

\* res.status(s).send(...) of a route: the handler has ended
RouteAnswered(kind, found, results, s) ==
    Loop(kind, "answered", found, <<>>, 0, results, s)

\* if (activeSockets.has(number)) { results.push(already_connected);
\* continue; } from the entries todo, without an await
RECURSIVE SkipConnected(_, _)
SkipConnected(todo, results) ==
    IF todo # <<>> /\ HasSocket(Head(todo))
    THEN SkipConnected(Tail(todo),
                       Append(results, <<Head(todo), "already_connected">>))
    ELSE [todo |-> todo, results |-> results]

\* for (const ... of ...) of a route from the entries todo: up to
\* await EmpirePair(number, mockRes), or to res.status(200).send
RouteIterate(kind, found, todo, results) ==
    LET rest == SkipConnected(todo, results) IN
    /\ rest.todo # <<>> => Room
    /\ IF rest.todo = <<>>
       THEN /\ replay' = RouteAnswered(kind, found, rest.results, 200)
            /\ calls' = calls
       ELSE /\ replay' = Loop(kind, "await", found, rest.todo, Len(calls) + 1,
                              rest.results, 0)
            /\ calls' = Append(calls,
                               EmpirePairEntry(Head(rest.todo), MockRes, 0))

\* GET /connect-all: 404 when numbers.json is missing or holds no entry,
\* else the loop over its entries
ConnectAll ==
    /\ Running
    /\ (IF replay.pc \in {"done", "aborted", "answered"} THEN 0 ELSE 1)
           < MaxLoops
    /\ IF numbersFile = {}
       THEN /\ replay' = RouteAnswered("connect-all", {}, <<>>, 404)
            /\ calls' = calls
       ELSE \E numbers \in Orders(numbersFile) :
                RouteIterate("connect-all", numbersFile, numbers, <<>>)
    /\ UNCHANGED <<activeSockets, socketCreationTime, store, sessionDir,
                   numbersFile, proc, inbound, console>>
    /\ UNCHANGED configVars

\* await EmpirePair(number, mockRes) of /connect-all is over: it returned,
\* and the loop goes on; or it rejected, and the catch of the route
\* answers 500
ConnectAllReturned ==
    /\ Running
    /\ replay.kind = "connect-all"
    /\ replay.pc = "await"
    /\ calls[replay.call].pc \in {"done", "failed", "rejected"}
    /\ IF calls[replay.call].pc = "rejected"
       THEN /\ replay' = RouteAnswered("connect-all", replay.found, <<>>, 500)
            /\ calls' = calls
       ELSE RouteIterate("connect-all", replay.found, Tail(replay.todo),
                Append(replay.results,
                       <<Head(replay.todo), "connection_initiated">>))
    /\ UNCHANGED <<activeSockets, socketCreationTime, store, sessionDir,
                   numbersFile, proc, inbound, console>>
    /\ UNCHANGED configVars

\* GET /reconnect: the handler awaits Session.find({})
GetReconnect ==
    /\ Running
    /\ (IF replay.pc \in {"done", "aborted", "answered"} THEN 0 ELSE 1)
           < MaxLoops
    /\ replay' = Loop("reconnect", "find", {}, <<>>, 0, <<>>, 0)
    /\ UNCHANGED <<activeSockets, socketCreationTime, store, sessionDir,
                   numbersFile, calls, proc, inbound, console>>
    /\ UNCHANGED configVars

\* await Session.find({}) of /reconnect is over: 404 on no record, else the
\* loop over the records; or it rejected, and the catch of the route
\* answers 500
ReconnectFind ==
    /\ Running
    /\ replay.kind = "reconnect"
    /\ replay.pc = "find"
    /\ \E dbOk \in BOOLEAN :
         LET found == { n \in Numbers : store[n].exists } IN
         IF ~dbOk \/ found = {}
         THEN /\ replay' = RouteAnswered("reconnect", {}, <<>>,
                                         IF dbOk THEN 404 ELSE 500)
              /\ calls' = calls
         ELSE \E sessions \in Orders(found) :
                  RouteIterate("reconnect", found, sessions, <<>>)
    /\ UNCHANGED <<activeSockets, socketCreationTime, store, sessionDir,
                   numbersFile, proc, inbound, console>>
    /\ UNCHANGED configVars

\* await EmpirePair(session.number, mockRes) of /reconnect is over: it
\* returned, or it rejected and the catch of the iteration logs; either way
\* the result is pushed and the loop awaits delay(1000)
ReconnectReturned ==
    /\ Running
    /\ replay.kind = "reconnect"
    /\ replay.pc = "await"
    /\ calls[replay.call].pc \in {"done", "failed", "rejected"}
    /\ replay' = [replay EXCEPT
           !.pc = "delay", !.call = 0,
           !.results = Append(@, <<Head(replay.todo),
                                   IF calls[replay.call].pc = "rejected"
                                   THEN "failed"
                                   ELSE "connection_initiated">>)]
    /\ UNCHANGED <<activeSockets, socketCreationTime, store, sessionDir,
                   numbersFile, calls, proc, inbound, console>>
    /\ UNCHANGED configVars

\* await delay(1000) of /reconnect is over: the next records
ReconnectDelay ==
    /\ Running
    /\ replay.kind = "reconnect"
    /\ replay.pc = "delay"
    /\ RouteIterate("reconnect", replay.found, Tail(replay.todo), replay.results)
    /\ UNCHANGED <<activeSockets, socketCreationTime, store, sessionDir,
                   numbersFile, proc, inbound, console>>
    /\ UNCHANGED configVars

\* the process after its startup replay: an empty registry, the records of
\* earlier lifetimes, and in numbers.json what earlier lifetimes wrote or
\* what was put there by hand
RouteInit ==
    /\ activeSockets = [n \in Numbers |-> 0]
    /\ socketCreationTime = [n \in Numbers |-> 0]
    /\ store \in [Numbers -> InitRecords]
    /\ sessionDir = [n \in Numbers |-> Null]
    /\ numbersFile \in SUBSET (RawNumbers \ { <<>> })
    /\ calls = <<>>
    /\ proc = "running"
    /\ otpStore = [n \in Numbers |-> NoOtp]
    /\ now = 0
    /\ routes = <<>>
    /\ exchange = NoExchange
    /\ history = [n \in Numbers |-> NoHistory]
    /\ replay = ReplayAborted
    /\ inbound = NoInbound
    /\ console = <<>>

\* the two routes, the EmpirePair calls of their loops and the opening of
\* the sockets
RouteNext ==
    \/ ConnectAll
    \/ ConnectAllReturned
    \/ GetReconnect
    \/ ReconnectFind
    \/ ReconnectReturned
    \/ ReconnectDelay
    \/ \E i \in 1..MaxCalls : RestoreCreds(i)
    \/ \E i \in 1..MaxCalls : OpenSocket(i)
    \/ \E i \in 1..MaxCalls : RequestPairingCode(i)
    \/ \E i \in 1..MaxCalls : Backoff(i)
    \/ \E i \in 1..MaxCalls : ConnOpen(i)
    \/ \E i \in 1..MaxCalls : OpenRegister(i)
    \/ \E i \in 1..MaxCalls : OpenWelcome(i)

RouteSpec == RouteInit /\ [][RouteNext]_vars

\* C23: when the startup replay has ended after Session.find returned the
\* persisted records, EmpirePair has been invoked for every record whose
\* number was not registered, whatever happened while pairing another number.
C23_EveryRecordReplayed ==
    replay.pc \in {"done", "aborted"} =>
        \A n \in replay.found :
            activeSockets[n] # 0 \/ \E i \in CallIds : calls[i].num = n

\* the step ends the case of a command of socket i with a throw
ThrowStep(i) == calls[i].cmdH = "handler" /\ calls'[i].cmdH = "error"

\* the step ends the catch of the command subscriber of socket i
CatchEndStep(i) == calls[i].cmdH = "error" /\ calls'[i].cmdH = "idle"

\* C24: an exception thrown by a command handler is caught by the command
\* subscriber, which answers with the generic error message; it goes no
\* further: the registry is as it was and the process runs on as before (the
\* uncaught-exception restart is not reached), also when the error message
\* cannot be sent.
C24_HandlerErrorsContained ==
    [][\A i \in CallIds :
          /\ ThrowStep(i) =>
                 /\ proc' = proc
                 /\ activeSockets' = activeSockets
          /\ CatchEndStep(i) =>
                 /\ proc' = proc
                 /\ activeSockets' = activeSockets
                 /\ ~inbound'.escaped =>
                        /\ inbound'.replies # <<>>
                        /\ inbound'.replies[Len(inbound'.replies)] = "error"]_vars

\* the white-space-delimited tokens of a string
RECURSIVE Tokens(_)
Tokens(s) ==
    LET t == TrimStart(s) IN
    IF t = <<>> THEN <<>>
    ELSE LET k == CHOOSE j \in 1..(Len(t) + 1) :
                      /\ j > Len(t) \/ t[j] \in WhiteSpace
                      /\ \A h \in 1..(j - 1) : t[h] \notin WhiteSpace IN
         << SubSeq(t, 1, k - 1) >> \o Tokens(Slice(t, k - 1))

\* C25: for every body that starts with the prefix and has a token after
\* it, the command name is the first white-space-delimited token after the
\* prefix in lower case and args are exactly the tokens that follow it, also
\* when white space separates the prefix from the command name.
C25_CommandAndArgsAreTokens ==
    (inbound.kind = "message" /\ StartsWith(inbound.body, PREFIX)
         /\ Tokens(Slice(inbound.body, Len(PREFIX))) # <<>>) =>
        LET tokens == Tokens(Slice(inbound.body, Len(PREFIX))) IN
        /\ inbound.command = ToLowerCase(Head(tokens))
        /\ inbound.args = Tail(tokens)

\* the step delivers a chat message to the subscribers of socket i
MessageStep(i) ==
    /\ inbound' # inbound
    /\ inbound'.kind = "message"
    /\ inbound'.num = calls[i].num
    /\ calls[i].cmdH = "idle"
    /\ inbound'.replies = <<>>
    /\ ~inbound'.escaped

\* C26: a chat message whose body does not start with the prefix, or whose
\* command name is no case of the switch, runs no handler, gets no reply and
\* leaves the registry, the OTP store, the Session records and the session
\* directory as they were.
C26_NonCommandsChangeNothing ==
    [][\A i \in CallIds :
          (MessageStep(i)
             /\ (~StartsWith(inbound'.body, PREFIX)
                   \/ inbound'.command \notin HandlerTable)) =>
            /\ inbound'.handler = "none"
            /\ calls'[i].cmdH = "idle"
            /\ inbound'.replies = <<>>
            /\ activeSockets' = activeSockets
            /\ socketCreationTime' = socketCreationTime
            /\ otpStore' = otpStore
            /\ store' = store
            /\ sessionDir' = sessionDir]_vars

\* a message that names a handler without the prefix, and one with the prefix
\* and an unknown name, were delivered and nothing ran
C26_Witness ==
    /\ inbound.kind = "message"
    /\ inbound.handler = "none"
    /\ inbound.replies = <<>>
    /\ \/ /\ ~StartsWith(inbound.body, PREFIX)
          /\ Slice(inbound.body, 1) \in HandlerTable
       \/ /\ StartsWith(inbound.body, PREFIX)
          /\ inbound.command # <<>>
          /\ inbound.command \notin HandlerTable
    /\ \A i \in CallIds : calls[i].cmdH = "idle"

\* C27: the sender of a chat message is privileged exactly when its number
\* is the bot's own number or the configured owner number; a number that is
\* only a part of one of them, or an empty number, is not privileged.
C27_OwnerIsExactMatch ==
    inbound.kind = "message" =>
        (inbound.isOwner <=>
            (inbound.sender = inbound.num \/ inbound.sender = OWNER_NUMBER))

\* the step resumes EmpirePair call i after await restoreSession(...)
RestoreStep(i) ==
    /\ calls[i].pc = "restore"
    /\ i \in DOMAIN calls'
    /\ calls'[i].pc # "restore"

\* C28: a failure of the store is no error of restoreSession or
\* loadUserConfig: the first yields no credentials and the second the default
\* configuration, whatever the store holds; and EmpirePair goes on after
\* restoreSession, with fresh credentials when no creds.json was written.
C28_StoreFailureIsAbsent ==
    [][/\ \A n \in Numbers :
             /\ restoreSession(n, FALSE) = Null
             /\ loadUserConfig(n, FALSE) = DefaultConfig
       /\ \A i \in CallIds :
             RestoreStep(i) =>
                 /\ calls'[i].pc = "auth"
                 /\ proc' = proc
                 /\ sessionDir'[calls[i].num] \in
                        {sessionDir[calls[i].num], store[calls[i].num].creds}
                 /\ ~sessionDir'[calls[i].num].present =>
                        useMultiFileAuthState(calls[i].num)' = FreshCreds]_vars

\* EmpirePair requests a pairing code with fresh credentials for a number
\* whose record holds registered credentials: its restore failed
C28_Witness ==
    \E i \in CallIds :
        /\ calls[i].pc = "request"
        /\ calls[i].hadRecord
        /\ calls[i].creds = FreshCreds
        /\ store[calls[i].num] = SessionRecord(RegisteredCreds)
        /\ sessionDir[calls[i].num] = Null
        /\ Len(calls) = 1

\* the step starts the cooldown of the close subscriber of socket i
CooldownStep(i) ==
    /\ calls[i].closeH # "cooldown"
    /\ i \in DOMAIN calls'
    /\ calls'[i].closeH = "cooldown"

\* C29: when the close subscriber of a dropped socket (a close other than
\* 401) starts to wait for its cooldown, the registry no longer holds that
\* socket, and during the wait a GET / for its number is not answered
\* already_connected because of it.
C29_DroppedEntryRemovedBeforeCooldown ==
    [][\A i \in CallIds :
          /\ CooldownStep(i) => activeSockets'[calls[i].num] # i
          /\ calls[i].closeH = "cooldown" =>
                 \A number \in RawNumbers :
                     (RequestStep(number) /\ Sanitize(number) = calls[i].num
                          /\ activeSockets[calls[i].num] \in {0, i}) =>
                         calls'[Len(calls')].res.body # "already_connected"]_vars

\* the EmpirePair call i made by a close subscriber has failed: its catch has
\* run, or it rejected before its try block
ReconnectFailed(i) ==
    /\ i \in CallIds
    /\ calls[i].origin # 0
    /\ calls[i].pc \in {"failed", "rejected"}
    /\ Running

\* a later EmpirePair call for the number of call i exists or is scheduled by
\* a close subscriber in its cooldown, or the number is registered
RetryFollows(i) ==
    IF i \notin CallIds \/ ~Running THEN TRUE
    ELSE IF calls[i].num \notin Numbers THEN TRUE
    ELSE \/ activeSockets[calls[i].num] # 0
         \/ \E j \in CallIds : j > i /\ calls[j].num = calls[i].num
         \/ \E j \in Cooling : calls[j].num = calls[i].num

\* C30: after a drop (a close other than 401), reconnection goes on until
\* the number is registered again: when the EmpirePair call made by the close
\* subscriber itself fails, another EmpirePair call for the number follows.
C30_FailedReconnectIsRetried ==
    \A i \in 1..MaxCalls : ReconnectFailed(i) ~> RetryFollows(i)

(***************************************************************************)
(* The open subscriber: configuration seeding, group join and follows      *)
(***************************************************************************)
\* a session with the open subscriber keeping its log lines
OpenNext ==
    \/ \E i \in 1..MaxCalls : ConnOpen(i)
    \/ \E i \in 1..MaxCalls : OpenLogged(i)
    \/ \E i \in 1..MaxCalls : OpenWelcome(i)
    \/ \E i \in 1..MaxCalls : \E statusCode \in CloseStatuses :
           ConnClose(i, statusCode)
    \/ \E i \in 1..MaxCalls : LogoutCleanup(i)
    \/ \E i \in 1..MaxCalls : LogoutNotify(i)
    \/ \E i \in 1..MaxCalls : Reconnect(i)
    \/ \E i \in 1..MaxCalls : RestoreCreds(i)
    \/ \E i \in 1..MaxCalls : OpenSocket(i)
    \/ ProcessExit

OpenSpec == SessionInit /\ [][OpenNext]_vars

\* a configuration document is persisted for number n
Configured(sessions, n) == sessions[n].exists /\ sessions[n].config.defined

\* the open subscriber of call i passes its load-or-seed block
SeedStep(i) ==
    /\ i \in CallIds
    /\ i \in DOMAIN calls'
    /\ calls[i].openH = "settle"
    /\ calls'[i].openH = "welcome"

\* C31: when the open subscriber of a connection for N runs and no
\* configuration is stored for N, it seeds the store with the default
\* configuration, so that a configuration document for N is persisted.
C31_OpenSeedsDefaultConfig ==
    [][\A i \in 1..MaxCalls :
          (SeedStep(i) /\ ~Configured(store, calls[i].num)) =>
              /\ Configured(store', calls[i].num)
              /\ store'[calls[i].num].config = DefaultConfig]_vars

\* the log line of a subscriber whose group join failed on every one of its
\* MAX_RETRIES attempts, or that could not follow some newsletter
SetupFailed(line) ==
    \/ ~line.joined /\ line.tries = MAX_RETRIES
    \/ line.missed > 0

\* the open subscriber of call i is through with its join and its follows
SetupStep(i) ==
    /\ i \in CallIds
    /\ i \in DOMAIN calls'
    /\ calls[i].openH = "settle"
    /\ calls'[i].openH # "settle"
    /\ Len(console') = Len(console) + 1
    /\ console'[Len(console')].call = i

\* C32: in the open subscriber for N, a group join that failed on all
\* MAX_RETRIES attempts and follows that failed are not fatal: the subscriber
\* goes on to the registration, so N is in the registry afterwards.
C32_SetupFailuresNotFatal ==
    [][\A i \in 1..MaxCalls :
          (SetupStep(i) /\ SetupFailed(console'[Len(console')])) =>
              /\ activeSockets'[calls[i].num] = i
              /\ calls'[i].openH = "welcome"
              /\ proc' = proc]_vars

C32_Witness ==
    \E i \in CallIds : \E k \in DOMAIN console :
        /\ console[k].call = i
        /\ ~console[k].joined
        /\ console[k].tries = MAX_RETRIES
        /\ console[k].missed = MaxNewsletters
        /\ activeSockets[calls[i].num] = i
        /\ calls[i].openH = "welcome"

\* C33: in every reachable state, every number present in the registry also
\* has a creation timestamp: the registry entry and its timestamp are never
\* out of step, also when a second pair(N) attempt fails while an earlier
\* connection for N is still completing its open sequence.
C33_RegisteredHasTimestamp ==
    \A n \in Numbers : activeSockets[n] # 0 => socketCreationTime[n] # 0

\* the close subscriber of call i runs its deletions from the two maps
CloseCleanupStep(i) ==
    /\ i \in CallIds
    /\ i \in DOMAIN calls'
    /\ \/ calls[i].closeH = "logout" /\ calls'[i].closeH = "notify"
       \/ calls[i].closeH = "cooldown" /\ calls'[i].closeH = "idle"

\* C34: the close subscriber of a connection A for N removes the registry
\* entry of N only when that entry is A: a close of an older or never
\* registered connection for N does not remove the registry entry of
\* another connection for N that is still open.
C34_CloseRemovesOwnEntryOnly ==
    [][\A i \in 1..MaxCalls :
          (/\ CloseCleanupStep(i)
           /\ activeSockets[calls[i].num] \notin {0, i}
           /\ calls[activeSockets[calls[i].num]].conn = "open") =>
              activeSockets'[calls[i].num] = activeSockets[calls[i].num]]_vars

\* the update-config handler r answers that its OTP could not be sent
SendFailedStep(r) ==
    /\ r \in DOMAIN routes
    /\ routes[r].route = "update-config"
    /\ routes[r].pc = "sendOTP"
    /\ routes' = Resume(r)
    /\ exchange'.body = "send_failed"

\* the pending request of n was stored by another request than handler r's
StoredByLater(r, n) ==
    /\ otpStore[n].present
    /\ \/ otpStore[n].otp # routes[r].otp
       \/ otpStore[n].newConfig # routes[r].newConfig

\* C35: when two update-config requests for N interleave and the OTP send
\* of the earlier one fails after the later one has stored its OTP, the
\* cleanup removes only the earlier request's record: the pending OTP of the
\* later request stays in the OTP store and can still be verified.
C35_SendFailureKeepsLaterOtp ==
    [][\A r \in 1..MaxRoutes :
          (SendFailedStep(r) /\ StoredByLater(r, routes[r].num)) =>
              otpStore'[routes[r].num] = otpStore[routes[r].num]]_vars

\* the last chat command handled for n was a deleteme, and its handler is
\* through: the session of n has been deleted
DeletionDone(n) ==
    /\ inbound.kind = "message"
    /\ inbound.handler = "deleteme"
    /\ inbound.num = n
    /\ \A i \in CallIds : calls[i].num = n => calls[i].cmdH = "idle"

\* the close subscriber of socket k calls EmpirePair for its number
AutoPairStep(k) ==
    /\ k \in CallIds
    /\ Len(calls') = Len(calls) + 1
    /\ calls'[Len(calls')].origin = k

\* C36: an explicit deletion of the session of N (the deleteme command) is
\* terminal: after it no pair(N) is invoked automatically, in a session that
\* receives no pairing request after the deletion.
C36_DeleteIsTerminal ==
    [][\A k \in 1..MaxCalls :
          AutoPairStep(k) => ~DeletionDone(calls[k].num)]_vars

\* the sender is the bot's own number or the configured owner
Privileged(senderNumber, n) == senderNumber = n \/ senderNumber = OWNER_NUMBER

\* the step of a chat command deletes the record or the registry entry of n
CommandDeletes(n) ==
    /\ DeleteStep(n)
    /\ inbound.kind = "message"
    /\ inbound.num = n
    /\ \/ store[n].exists /\ ~store'[n].exists
       \/ activeSockets[n] # 0 /\ activeSockets'[n] = 0

\* C37: a chat command deletes the persisted Session record and the registry
\* entry of N only when its sender is privileged (the bot's own number or a
\* configured owner); a deleteme command of any other sender leaves both as
\* they are.
C37_DeleteOnlyByPrivileged ==
    [][\A n \in Numbers :
          CommandDeletes(n) => Privileged(inbound.sender, n)]_vars

\* the verify-otp handler r answers its request with an error
VerifyErrorStep(r) ==
    /\ r \in DOMAIN routes
    /\ routes[r].route = "verify-otp"
    /\ routes' = Resume(r)
    /\ exchange'.route = "verify-otp"
    /\ exchange'.status # 200

\* await updateUserConfig(...) of handler r has resolved: the handler has
\* written its payload as the configuration of its number and awaits the
\* confirmation message
Stored(r) == routes[r].pc = "notify"

\* C38: verify-otp answers with success if and only if the pending
\* configuration was committed to the store: whenever it answers with an
\* error, also when only the confirmation message fails to send, the call
\* has not changed the persisted configuration of N.
C38_ErrorMeansNotCommitted ==
    [][\A r \in 1..MaxRoutes : VerifyErrorStep(r) => ~Stored(r)]_vars

\* C39: a verify-otp call for N with a wrong code before expiry is answered
\* "Invalid OTP", commits nothing and leaves the pending request (code,
\* expiry, payload) as it was, so that the correct code can still be
\* verified before expiry after any number of wrong attempts.
C39_WrongCodeKeepsRequest ==
    [][\A number \in RouteNumbers \ {<<>>} : \A otp \in OtpParams \ {""} :
          (/\ VerifyCall(number, otp)
           /\ otpStore[Sanitize(number)].present
           /\ ~Expired(otpStore[Sanitize(number)])
           /\ otp # otpStore[Sanitize(number)].otp) =>
              /\ exchange'.status = 400
              /\ exchange'.body = "invalid_otp"
              /\ otpStore' = otpStore
              /\ now' = now
              /\ store' = store
              /\ routes' = routes
              /\ history' = history]_vars

\* a wrong code was answered Invalid OTP while the request is pending and
\* not expired: its code still verifies
C39_Witness ==
    /\ exchange.route = "verify-otp"
    /\ exchange.body = "invalid_otp"
    /\ exchange.status = 400
    /\ otpStore[Sanitize(exchange.number)].present
    /\ ~Expired(otpStore[Sanitize(exchange.number)])
    /\ exchange.otp # otpStore[Sanitize(exchange.number)].otp
    /\ otpStore[Sanitize(exchange.number)].otp \in OtpCodes

====
